---------------------------- MODULE Spec2Model ----------------------------
(***************************************************************************)
(* nightlife-mcp: request admission and quota enforcement.                 *)
(*                                                                         *)
(* The model covers the Postgres control plane (tables mcp_api_keys,       *)
(* mcp_api_usage_minute, mcp_api_usage_daily and the function              *)
(* consume_mcp_api_request), authorizeApiKey of src/auth/authorize.ts and  *)
(* the /mcp middleware and route handlers of src/http.ts.                  *)
(*                                                                         *)
(* consume_mcp_api_request is modelled statement by statement: every SQL   *)
(* statement is one atomic step (INSERT .. ON CONFLICT DO UPDATE .. WHERE  *)
(* is one indivisible check-and-increment on its row), and statements of   *)
(* concurrent calls interleave freely.  Row locks held until commit are    *)
(* not modelled, so the model has every interleaving of the database and   *)
(* more.                                                                   *)
(*                                                                         *)
(* Nullable values are sequences of length at most one: NULL is << >> and  *)
(* the integer n is << n >>.  Strings whose content the code inspects      *)
(* (secrets, digests, error messages) are sequences of symbols.            *)
(***************************************************************************)
EXTENDS Integers, Sequences, FiniteSets, TLC

VARIABLES
  server,        \* main(): "starting", then "listening", or "failed" when it threw
  config,        \* AppConfig of the HTTP process (read once in main)
  clock,         \* wall clock of the HTTP process, in ticks
  keys,          \* table mcp_api_keys: sequence of rows, in insertion order
  usage_minute,  \* table mcp_api_usage_minute: (api_key_id, minute_start) -> request_count
  usage_daily,   \* table mcp_api_usage_daily: (api_key_id, usage_date) -> request_count
  sessions,      \* Map<string, SessionContext> of main()
  nextSession,   \* number of session ids handed out so far (randomUUID is fresh)
  req,           \* the in-flight HTTP requests, one record per connection slot
  mgmt,          \* the in-flight create_user_api_key calls, one per database connection
  ok_log,        \* history: (api_key_id, usage_date) -> calls that returned reason ok
  scored         \* the candidate the recommender is scoring against a modal, or NULL

vars == <<server, config, clock, keys, usage_minute, usage_daily, sessions, nextSession, req, mgmt,
         ok_log, scored>>

-----------------------------------------------------------------------------
(* Bounds of the model *)

\* Largest finite quota a key is created with.
MaxQuota == 1
\* Last tick of the clock.
MaxClock == 4
\* Cap on a counter of an unlimited window (the code applies none).
MaxCount == 2
\* Sessions opened over the life of the process.
MaxSessions == 2

\* Scale of the clock: ticks per minute and minutes per day.
TicksPerMinute == 2
MinutesPerDay == 2

\* Connection slots: requests that can be in flight at the same time.
Reqs == {"r1", "r2"}
\* Database connections of authenticated users calling the key-management RPCs.
Conns == {"c1", "c2"}

-----------------------------------------------------------------------------
(* Nullable values *)

NULL == << >>
Some(n) == << n >>
IsNull(x) == x = NULL
Val(x) == x[1]

Max(a, b) == IF a >= b THEN a ELSE b
Min(a, b) == IF a <= b THEN a ELSE b

-----------------------------------------------------------------------------
(* Secrets, digests and fingerprints (src/auth/apiKeys.ts) *)

\* Raw credentials a caller can present, as byte sequences.
Secrets == { <<"a", "a">>, <<"a", "b">>, <<"c">> }

\* Raw keys create_user_api_key can generate ('nlt_' and 24 random bytes).
GeneratedSecrets == Secrets \cup { <<"d">> }

\* A header as Node hands it over in req.headers: absent, one string, or an
\* array of values.  A string is its sequence of characters.
Undefined == [type |-> "undefined", value |-> << >>]
Str(chars) == [type |-> "string", value |-> chars]
Arr(items) == [type |-> "array", value |-> items]

\* String.prototype.trim
RECURSIVE trimStart(_)
trimStart(s) ==
  IF s = << >> THEN s
  ELSE IF Head(s) = " " THEN trimStart(Tail(s))
  ELSE s

RECURSIVE trimEnd(_)
trimEnd(s) ==
  IF s = << >> THEN s
  ELSE IF s[Len(s)] = " " THEN trimEnd(SubSeq(s, 1, Len(s) - 1))
  ELSE s

trim(s) == trimEnd(trimStart(s))

\* raw.find((value) => typeof value === "string" && value.trim().length > 0)
RECURSIVE find(_)
find(items) ==
  IF items = << >> THEN Undefined
  ELSE IF Head(items).type = "string" /\ Len(trim(Head(items).value)) > 0 THEN Head(items)
  ELSE find(Tail(items))

\* headerValue(raw): the trimmed value, or null (the empty sequence).
headerValue(raw) ==
  IF raw.type = "string" THEN trim(raw.value)
  ELSE IF raw.type = "array"
    THEN LET first == find(raw.value) IN
           IF first.type = "string" THEN trim(first.value) ELSE << >>
  ELSE << >>

\* The letters of the scheme name, folded to lower case (the i flag).
toLowerCase(ch) ==
  CASE ch = "B" -> "b"
    [] ch = "E" -> "e"
    [] ch = "A" -> "a"
    [] ch = "R" -> "r"
    [] OTHER    -> ch

\* The number of whitespace characters s starts with.
RECURSIVE leadingSpaces(_)
leadingSpaces(s) ==
  IF s = << >> \/ Head(s) # " " THEN 0 ELSE 1 + leadingSpaces(Tail(s))

\* /^Bearer\s+(.+)$/i.exec(authHeader): the group, or null when the header
\* does not match.  \s+ takes the whitespace after the scheme and leaves at
\* least one character to the group.
execBearer(authHeader) ==
  IF Len(authHeader) < 8 THEN << >>
  ELSE LET scheme == [i \in 1..6 |-> toLowerCase(authHeader[i])]
           rest   == SubSeq(authHeader, 7, Len(authHeader))
           spaces == leadingSpaces(rest)
       IN  IF scheme # <<"b", "e", "a", "r", "e", "r">> \/ spaces = 0 THEN << >>
           ELSE SubSeq(rest, Min(spaces, Len(rest) - 1) + 1, Len(rest))

\* A variant that takes the value after any scheme name.
extractApiKeyFromHeadersAnyScheme(headers) ==
  LET xApiKey == headerValue(headers.x_api_key) IN
    IF xApiKey # << >> THEN xApiKey
    ELSE LET authHeader == headerValue(headers.authorization)
             spaces == { i \in DOMAIN authHeader : authHeader[i] = " " }
         IN  IF authHeader = << >> \/ spaces = {} THEN NULL
             ELSE trim(SubSeq(authHeader, CHOOSE i \in spaces : \A j \in spaces : i <= j,
                              Len(authHeader)))

extractApiKeyFromHeaders(headers) ==
  LET xApiKey == headerValue(headers.x_api_key) IN
    IF xApiKey # << >> THEN xApiKey
    ELSE LET authHeader == headerValue(headers.authorization) IN
           IF authHeader = << >> THEN NULL
           ELSE LET bearer == execBearer(authHeader) IN
                  IF bearer = << >> THEN NULL
                  ELSE trim(bearer)

\* sha256 hex digest, as a table over the secrets of the model.  The digests
\* are pairwise distinct; two of them agree on their fingerprint prefix.
FingerprintLen == 1
hashApiKey(key) ==
  CASE key = <<"a", "a">> -> <<"1", "7">>
    [] key = <<"a", "b">> -> <<"1", "9">>
    [] key = <<"c">>      -> <<"2", "7">>
    [] key = <<"d">>      -> <<"3", "3">>
    [] OTHER              -> <<"0", "0">>

keyFingerprint(key) == SubSeq(hashApiKey(key), 1, FingerprintLen)

\* crypto.timingSafeEqual on two buffers of equal length.
timingSafeEqual(a, b) == \A i \in 1..Len(a) : a[i] = b[i]

\* A variant that stops at the length check.
isApiKeyAllowedByLength(candidate, allowedKeys) ==
  \E key \in allowedKeys : Len(key) = Len(candidate)

isApiKeyAllowed(candidate, allowedKeys) ==
  \E key \in allowedKeys :
    IF Len(key) # Len(candidate) THEN FALSE ELSE timingSafeEqual(candidate, key)


-----------------------------------------------------------------------------
(* Time windows (consume_mcp_api_request, v_day and v_minute) *)

\* date_trunc('minute', p_now): the timestamp of the start of p_now's minute.
MinuteStart(p_now) == (p_now \div TicksPerMinute) * TicksPerMinute

\* (p_now AT TIME ZONE 'UTC')::date: the number of p_now's calendar day.
UsageDate(p_now) == p_now \div (TicksPerMinute * MinutesPerDay)

-----------------------------------------------------------------------------
(* Table mcp_api_keys *)

Tiers == {"starter"}
\* auth.uid() of an authenticated caller.
Users == { <<"u1">>, <<"u2">> }

\* Quotas accepted by parseQuota and by the CHECK constraints of the table:
\* NULL (unlimited) or a non-negative integer.
QuotaValues == {NULL} \cup { Some(q) : q \in 0..MaxQuota }

\* Defaults of create_user_api_key.
DefaultDailyQuota == 100
DefaultMinuteQuota == 20
\* create_user_api_key refuses a user who has this many active keys.
MaxActiveKeys == 3

KeyIds == 1..Len(keys)

\* SELECT * FROM mcp_api_keys WHERE key_hash = p_key_hash LIMIT 1
\* (key_hash is UNIQUE): the id of the row, or NULL when NOT FOUND.
FindByHash(p_key_hash) ==
  IF \E id \in KeyIds : keys[id].key_hash = p_key_hash
    THEN Some(CHOOSE id \in KeyIds : keys[id].key_hash = p_key_hash)
    ELSE NULL

NewKeyRow(id, secret, tier, daily, minute, user) ==
  [ id               |-> id,
    key_name         |-> <<"name", id>>,
    key_hash         |-> hashApiKey(secret),
    tier             |-> tier,
    status           |-> "active",
    daily_quota      |-> daily,
    per_minute_quota |-> minute,
    last_used_at     |-> NULL,
    user_id          |-> user ]

-----------------------------------------------------------------------------
(* Usage tables: a row exists iff its key is in the DOMAIN *)

HasRow(table, id, window) == <<id, window>> \in DOMAIN table

\* COALESCE(request_count, 0)
CountOf(table, id, window) ==
  IF HasRow(table, id, window) THEN table[<<id, window>>] ELSE 0

\* WHERE clause of the conditional DO UPDATE: request_count < quota.
BelowQuota(count, quota) == count < quota

\* A variant that counts an unlimited window once and then stops.
UpsertOnce(table, id, window) ==
  IF HasRow(table, id, window) THEN table ELSE table @@ (<<id, window>> :> 1)

\* INSERT .. VALUES (id, window, 1) ON CONFLICT ON CONSTRAINT .._pkey
\*   DO UPDATE SET request_count = request_count + 1
\* (the statement of the unlimited branch).
UpsertAlways(table, id, window) ==
  IF HasRow(table, id, window)
    THEN [table EXCEPT ![<<id, window>>] = @ + 1]
    ELSE table @@ (<<id, window>> :> 1)

\* A variant that holds the quota against the key's rows of all windows.
UpsertIfBelowAcrossWindows(table, id, window, quota) ==
  IF \E k \in DOMAIN table : k[1] = id /\ ~(table[k] < quota)
    THEN table
    ELSE UpsertAlways(table, id, window)

\* A variant that applies the WHERE to the INSERT as well.
UpsertIfBelowOnInsert(table, id, window, quota) ==
  IF ~(CountOf(table, id, window) < quota)
    THEN table
    ELSE UpsertAlways(table, id, window)

\* The same statement with WHERE request_count < quota on the DO UPDATE
\* (the statement of the finite branch).  The WHERE guards the update only:
\* when there is no conflicting row the INSERT goes through.
UpsertIfBelow(table, id, window, quota) ==
  IF HasRow(table, id, window)
    THEN IF BelowQuota(table[<<id, window>>], quota)
           THEN [table EXCEPT ![<<id, window>>] = @ + 1]
           ELSE table
    ELSE table @@ (<<id, window>> :> 1)

\* A variant that returns the count of the row the statement tried to insert
\* (RETURNING EXCLUDED.request_count).
ReturningExcluded(before, after, id, window) ==
  IF after = before THEN NULL ELSE Some(1)

\* RETURNING request_count INTO v: the count of the row the statement wrote,
\* NULL when it wrote none.
Returning(before, after, id, window) ==
  IF after = before THEN NULL ELSE Some(after[<<id, window>>])

\* The model stops every counter at MaxCount: a statement that would go past
\* it is not taken.
WithinCap(table) == \A k \in DOMAIN table : table[k] <= MaxCount

-----------------------------------------------------------------------------
(* HTTP requests *)

\* A connection slot with no request in flight.
IdleReq ==
  [ pc             |-> "idle",
    apiKey         |-> NULL,   \* extractApiKeyFromHeaders(req.headers)
    p_now          |-> NULL,   \* nowIso of authorizeApiKey
    v_key          |-> NULL,   \* v_key of consume_mcp_api_request
    v_minute_count |-> NULL,
    v_daily_count  |-> NULL,
    row            |-> NULL,   \* data[0] of the rpc
    error          |-> NULL,   \* error.message of the rpc
    input          |-> NULL,   \* method, session header and body of the request
    fingerprint    |-> NULL,   \* req.apiKeyFingerprint
    res            |-> NULL ]  \* the response sent

Set(r, rec) == req' = [req EXCEPT ![r] = rec]

\* v_key: the columns of the selected row that consume_mcp_api_request reads.
RowRead(row) ==
  [ id               |-> row.id,
    key_name         |-> row.key_name,
    tier             |-> row.tier,
    status           |-> row.status,
    daily_quota      |-> row.daily_quota,
    per_minute_quota |-> row.per_minute_quota ]

\* The row consume_mcp_api_request returns.
ConsumeRpcRow(allowed, reason, key, daily_count, minute_count) ==
  [ allowed          |-> allowed,
    reason           |-> reason,
    api_key_id       |-> IF IsNull(key) THEN NULL ELSE Some(key.id),
    key_name         |-> IF IsNull(key) THEN NULL ELSE key.key_name,
    tier             |-> IF IsNull(key) THEN NULL ELSE Some(key.tier),
    daily_quota      |-> IF IsNull(key) THEN NULL ELSE key.daily_quota,
    daily_count      |-> daily_count,
    per_minute_quota |-> IF IsNull(key) THEN NULL ELSE key.per_minute_quota,
    minute_count     |-> minute_count ]


-----------------------------------------------------------------------------
(* authorizeApiKey (src/auth/authorize.ts) *)

\* String.prototype.includes on messages given as sequences of words.
Includes(msg, pat) ==
  \E i \in 1..(Len(msg) + 1) :
    /\ i + Len(pat) - 1 <= Len(msg)
    /\ SubSeq(msg, i, i + Len(pat) - 1) = pat

isRpcMissing(errorMessage) ==
  \/ Includes(errorMessage, <<"Could", "not", "find", "the", "function">>)
  \/ Includes(errorMessage, <<"does", "not", "exist">>)
  \/ Includes(errorMessage, <<"function", "public.consume_mcp_api_request">>)

\* error.message of a failed supabase.rpc call: PostgREST's and Postgres'
\* answers for a missing function or relation, and faults of other kinds.
FunctionNotFound ==
  <<"Could", "not", "find", "the", "function",
    "public.consume_mcp_api_request", "in", "the", "schema", "cache">>
FetchFailed == <<"fetch", "failed">>

ErrorMessages ==
  { FunctionNotFound,
    <<"function", "public.consume_mcp_api_request", "(text,", "timestamptz)",
      "does", "not", "exist">>,
    <<"relation", "public.mcp_api_usage_minute", "does", "not", "exist">>,
    <<"canceling", "statement", "due", "to", "statement", "timeout">>,
    FetchFailed,
    << >> }

ApiAuthError(httpStatus, jsonRpcCode, message, retryAfterSec) ==
  [ ok            |-> FALSE,
    httpStatus    |-> httpStatus,
    jsonRpcCode   |-> jsonRpcCode,
    message       |-> message,
    retryAfterSec |-> retryAfterSec ]

InvalidApiKey == ApiAuthError(403, -32003, "Invalid API key.", NULL)

BackendUnavailable ==
  ApiAuthError(500, -32603, "API key validation backend is unavailable. Run DB migration for consume_mcp_api_request().", NULL)

\* A variant that answers an unknown key like a missing one.
mapRpcRejectionAsMissing(reason) ==
  CASE reason = "invalid_key" -> ApiAuthError(401, -32001, "API key required.", NULL)
    [] reason = "revoked_key" -> InvalidApiKey
    [] reason = "minute_limit_exceeded" ->
         ApiAuthError(429, -32029, "Per-minute rate limit exceeded.", Some(60))
    [] reason = "daily_limit_exceeded" ->
         ApiAuthError(429, -32029, "Daily API quota exceeded.", Some(3600))
    [] OTHER -> InvalidApiKey

mapRpcRejection(reason) ==
  CASE reason \in {"invalid_key", "revoked_key"} -> InvalidApiKey
    [] reason = "minute_limit_exceeded" ->
         ApiAuthError(429, -32029, "Per-minute rate limit exceeded.", Some(60))
    [] reason = "daily_limit_exceeded" ->
         ApiAuthError(429, -32029, "Daily API quota exceeded.", Some(3600))
    [] OTHER -> InvalidApiKey

\* A variant without the floor at 0.
remainingUnfloored(quota, count) ==
  IF quota = NULL \/ count = NULL THEN NULL ELSE Some(Val(quota) - Val(count))

remaining(quota, count) ==
  IF quota = NULL \/ count = NULL THEN NULL ELSE Some(Max(0, Val(quota) - Val(count)))

\* Tiers stored in the table are lower-case and non-empty (CHECK constraint):
\* trim and toLowerCase leave them as they are; a NULL tier becomes "free".
normalizeTier(value) == IF IsNull(value) THEN "free" ELSE Val(value)

ApiKeyContext(keyId, keyName, tier, apiKey, source, dq, dc, mq, mc) ==
  [ ok              |-> TRUE,
    keyId           |-> keyId,
    keyName         |-> keyName,
    tier            |-> tier,
    fingerprint     |-> keyFingerprint(apiKey),
    source          |-> source,
    dailyQuota      |-> dq,
    dailyCount      |-> dc,
    minuteQuota     |-> mq,
    minuteCount     |-> mc,
    dailyRemaining  |-> remaining(dq, dc),
    minuteRemaining |-> remaining(mq, mc) ]

\* A variant that gives a fallback key the quotas a new key gets.
buildEnvContextWithQuotas(apiKey) ==
  ApiKeyContext(<<"env">>, <<"env-fallback">>, "free", apiKey, "env",
                Some(DefaultDailyQuota), Some(0), Some(DefaultMinuteQuota), Some(0))

buildEnvContext(apiKey) ==
  ApiKeyContext(<<"env">>, <<"env-fallback">>, "free", apiKey, "env",
                NULL, NULL, NULL, NULL)

\* authorizeApiKey from line 196 on: the fallback key set decides.
AuthorizeByEnv(cfg, apiKey) ==
  IF cfg.allowEnvFallback /\ isApiKeyAllowed(apiKey, cfg.envKeys)
    THEN buildEnvContext(apiKey)
    ELSE InvalidApiKey

\* A variant that falls back on every error.
FallbackOnAnyError(cfg, errorMessage) == cfg.allowEnvFallback

\* authorizeApiKey after an rpc that returned an error.
FallbackAllowed(cfg, errorMessage) ==
  ~(~cfg.allowEnvFallback \/ ~isRpcMissing(errorMessage))

AuthorizeOnError(cfg, apiKey, errorMessage) ==
  IF ~FallbackAllowed(cfg, errorMessage)
    THEN BackendUnavailable
    ELSE AuthorizeByEnv(cfg, apiKey)

\* authorizeApiKey after an rpc that returned data (row = data[0] or NULL).
AuthorizeOnRow(apiKey, row) ==
  IF IsNull(row) THEN InvalidApiKey
  ELSE IF ~row.allowed THEN mapRpcRejection(row.reason)
  ELSE ApiKeyContext(
         IF IsNull(row.api_key_id) THEN <<"unknown">> ELSE <<"uuid", Val(row.api_key_id)>>,
         row.key_name, normalizeTier(row.tier), apiKey, "db",
         row.daily_quota, row.daily_count, row.per_minute_quota, row.minute_count)


-----------------------------------------------------------------------------
(* Responses, the /mcp middleware and the route handlers (src/http.ts) *)

\* What has been written to res so far: nothing.
EmptyRes ==
  [ status          |-> NULL,
    code            |-> NULL,
    message         |-> NULL,
    retryAfter      |-> NULL,
    wwwAuthenticate |-> NULL,
    dailyLimit      |-> NULL,
    dailyRemaining  |-> NULL,
    minuteLimit     |-> NULL,
    minuteRemaining |-> NULL,
    tier            |-> NULL,
    source          |-> NULL,
    handledBy       |-> NULL ]  \* the session whose transport got the request

\* sendJsonRpcError(res, status, code, message)
sendJsonRpcError(res, status, code, message) ==
  [res EXCEPT !.status = Some(status), !.code = Some(code), !.message = Some(message)]

SessionIds == 1..MaxSessions

\* What a request carries besides its credential: the method, the
\* mcp-session-id header (getSessionId), whether the body is an initialize
\* request (isInitializeRequestBody), and whether the SDK transport accepts
\* an initialize request (it answers 400/406 otherwise and no session starts).
Inputs ==
  [ method : {"GET", "DELETE"},
    sessionId : {NULL} \cup { Some(i) : i \in SessionIds },
    isInit : {FALSE}, sdkAccepts : {FALSE} ]
  \cup
  [ method : {"POST"},
    sessionId : { Some(i) : i \in SessionIds },
    isInit : {FALSE}, sdkAccepts : {FALSE} ]
  \cup
  [ method : {"POST"}, sessionId : {NULL}, isInit : {FALSE}, sdkAccepts : {FALSE} ]
  \cup
  [ method : {"POST"}, sessionId : {NULL}, isInit : {TRUE}, sdkAccepts : BOOLEAN ]

\* What the middleware attaches to req before next().
NoReqAuth == [fingerprint |-> NULL, apiKeyId |-> NULL, apiKeyTier |-> NULL]

\* The outcome of a handler: the response and the session table after it.
Outcome(res, table, next, auth) ==
  [res |-> res, sessions |-> table, nextSession |-> next, fingerprint |-> auth.fingerprint]

\* A variant that compares key ids instead of fingerprints.
SessionMismatchByKeyId(auth, context) ==
  /\ config.requireApiKey
  /\ ~IsNull(auth.fingerprint)
  /\ context.apiKeyId # auth.apiKeyId

\* The guard the three handlers share: the session belongs to another key.
SessionMismatch(auth, context) ==
  /\ config.requireApiKey
  /\ ~IsNull(auth.fingerprint)
  /\ context.apiKeyFingerprint # auth.fingerprint

\* transport.handleRequest answered by the session's transport.
Handled(res, sessionId) ==
  [res EXCEPT !.status = Some(200), !.handledBy = Some(sessionId)]

\* sessions.set(newSessionId, ..) of onsessioninitialized.
SessionContext(auth) ==
  [ apiKeyFingerprint |-> IF IsNull(auth.fingerprint)
                            THEN <<"anonymous">> ELSE auth.fingerprint,
    apiKeyId          |-> IF IsNull(auth.apiKeyId)
                            THEN <<"anonymous">> ELSE auth.apiKeyId,
    apiKeyTier        |-> IF IsNull(auth.apiKeyTier)
                            THEN "free" ELSE Val(auth.apiKeyTier) ]

\* cleanupSession(sessionId)
cleanupSession(table, sessionId) ==
  IF sessionId \notin DOMAIN table
    THEN table
    ELSE [id \in DOMAIN table \ {sessionId} |-> table[id]]

\* A variant whose transport keeps the binding when it closes the session.
OnSessionKeepsClosed(input, auth, res, closes) ==
  LET id == Val(input.sessionId) IN
    IF id \notin DOMAIN sessions
      THEN Outcome(sendJsonRpcError(res, 404, -32004, "Unknown session ID."),
                   sessions, nextSession, auth)
    ELSE IF SessionMismatch(auth, sessions[id])
      THEN Outcome(sendJsonRpcError(res, 403, -32003, "Session not valid for this API key."),
                   sessions, nextSession, auth)
    ELSE Outcome(Handled(res, id), sessions, nextSession, auth)

\* A variant that binds the session to the key of every request it handles.
OnSessionRebinds(input, auth, res, closes) ==
  LET id == Val(input.sessionId) IN
    IF id \notin DOMAIN sessions
      THEN Outcome(sendJsonRpcError(res, 404, -32004, "Unknown session ID."),
                   sessions, nextSession, auth)
    ELSE IF SessionMismatch(auth, sessions[id])
      THEN Outcome(sendJsonRpcError(res, 403, -32003, "Session not valid for this API key."),
                   sessions, nextSession, auth)
    ELSE Outcome(Handled(res, id),
                 IF closes THEN cleanupSession(sessions, id)
                           ELSE [sessions EXCEPT ![id] = SessionContext(auth)],
                 nextSession, auth)

\* The checks on an existing session that the three handlers share; closes
\* says whether the transport closes the session (onsessionclosed).
OnSession(input, auth, res, closes) ==
  LET id == Val(input.sessionId) IN
    IF id \notin DOMAIN sessions
      THEN Outcome(sendJsonRpcError(res, 404, -32004, "Unknown session ID."),
                   sessions, nextSession, auth)
    ELSE IF SessionMismatch(auth, sessions[id])
      THEN Outcome(sendJsonRpcError(res, 403, -32003, "Session not valid for this API key."),
                   sessions, nextSession, auth)
    ELSE Outcome(Handled(res, id),
                 IF closes THEN cleanupSession(sessions, id) ELSE sessions,
                 nextSession, auth)

\* app.post("/mcp")
PostMcp(input, auth, res) ==
  IF ~IsNull(input.sessionId)
    THEN OnSession(input, auth, res, FALSE)
  ELSE IF ~input.isInit
    THEN Outcome(sendJsonRpcError(res, 400, -32000,
                   "Initialize request required when no session ID is present."),
                 sessions, nextSession, auth)
  ELSE IF ~input.sdkAccepts
    THEN Outcome([res EXCEPT !.status = Some(406)], sessions, nextSession, auth)
  ELSE Outcome(Handled(res, nextSession + 1),
               sessions @@ ((nextSession + 1) :> SessionContext(auth)),
               nextSession + 1, auth)

\* app.get("/mcp")
GetMcp(input, auth, res) ==
  IF IsNull(input.sessionId)
    THEN Outcome(sendJsonRpcError(res, 400, -32000, "Session ID header is required."),
                 sessions, nextSession, auth)
    ELSE OnSession(input, auth, res, FALSE)

\* app.delete("/mcp"): the transport that handles a DELETE closes its session
\* and calls onsessionclosed, which is cleanupSession.
DeleteMcp(input, auth, res) ==
  IF IsNull(input.sessionId)
    THEN Outcome(sendJsonRpcError(res, 400, -32000, "Session ID header is required."),
                 sessions, nextSession, auth)
    ELSE OnSession(input, auth, res, TRUE)

\* next(): Express runs the handler of the request's method.
Route(input, auth, res) ==
  CASE input.method = "POST"   -> PostMcp(input, auth, res)
    [] input.method = "GET"    -> GetMcp(input, auth, res)
    [] input.method = "DELETE" -> DeleteMcp(input, auth, res)

\* The middleware when no API key is required (lines 657-660).
Unprotected(input) == Route(input, NoReqAuth, EmptyRes)

\* The middleware when the request carries no API key (lines 663-668).
ApiKeyRequired ==
  Outcome(sendJsonRpcError([EmptyRes EXCEPT !.wwwAuthenticate = Some("Bearer")],
                           401, -32001, "API key required."),
          sessions, nextSession, NoReqAuth)

\* The middleware after authorizeApiKey returned auth (lines 678-713).
\* A variant that sends a Retry-After with every denial.
DeniedWithRetryAfter(auth) ==
  sendJsonRpcError([EmptyRes EXCEPT !.retryAfter =
                      IF IsNull(auth.retryAfterSec) THEN Some(60) ELSE auth.retryAfterSec],
                   auth.httpStatus, auth.jsonRpcCode, auth.message)

Denied(auth) ==
  sendJsonRpcError([EmptyRes EXCEPT !.retryAfter = auth.retryAfterSec],
                   auth.httpStatus, auth.jsonRpcCode, auth.message)

RateLimitHeaders(context) ==
  [EmptyRes EXCEPT !.dailyLimit      = context.dailyQuota,
                   !.dailyRemaining  = context.dailyRemaining,
                   !.minuteLimit     = context.minuteQuota,
                   !.minuteRemaining = context.minuteRemaining,
                   !.tier            = Some(context.tier),
                   !.source          = Some(context.source)]

\* A variant that looks the session up before it looks at the decision.
AfterAuthorizeLooksUpSessionFirst(input, auth) ==
  IF ~IsNull(input.sessionId) /\ Val(input.sessionId) \notin DOMAIN sessions
    THEN Outcome(sendJsonRpcError(EmptyRes, 404, -32004, "Unknown session ID."),
                 sessions, nextSession, NoReqAuth)
  ELSE IF ~auth.ok
    THEN Outcome(Denied(auth), sessions, nextSession, NoReqAuth)
  ELSE Route(input,
             [fingerprint |-> auth.fingerprint, apiKeyId |-> auth.keyId,
              apiKeyTier |-> Some(auth.tier)],
             RateLimitHeaders(auth))

\* A variant that closes the session a denied request names.
AfterAuthorizeClosesOnDenial(input, auth) ==
  IF ~auth.ok
    THEN Outcome(Denied(auth),
                 IF IsNull(input.sessionId) THEN sessions
                 ELSE cleanupSession(sessions, Val(input.sessionId)),
                 nextSession, NoReqAuth)
    ELSE Route(input,
               [fingerprint |-> auth.fingerprint, apiKeyId |-> auth.keyId,
                apiKeyTier |-> Some(auth.tier)],
               RateLimitHeaders(auth))

\* A variant that lets a rate-limited request through to the handlers.
AfterAuthorizeRoutesRateLimited(input, auth) ==
  IF ~auth.ok /\ auth.httpStatus # 429
    THEN Outcome(Denied(auth), sessions, nextSession, NoReqAuth)
  ELSE IF ~auth.ok
    THEN Route(input, NoReqAuth, Denied(auth))
  ELSE Route(input,
             [fingerprint |-> auth.fingerprint, apiKeyId |-> auth.keyId,
              apiKeyTier |-> Some(auth.tier)],
             RateLimitHeaders(auth))

AfterAuthorize(input, auth) ==
  IF ~auth.ok
    THEN Outcome(Denied(auth), sessions, nextSession, NoReqAuth)
    ELSE Route(input,
               [fingerprint |-> auth.fingerprint, apiKeyId |-> auth.keyId,
                apiKeyTier |-> Some(auth.tier)],
               RateLimitHeaders(auth))

-----------------------------------------------------------------------------
(* The steps of a request in the HTTP process.  The process is single-     *)
(* threaded: what runs between two awaits is one step, and the only await  *)
(* that waits for I/O is the rpc of authorizeApiKey.                       *)

\* The response goes out and the handler's writes to the session table land.
\* A slot keeps the exchange until its 'finish' event; nothing reads it, so
\* the model lets one exchange at a time wait for that event.
Respond(r, apiKey, error, input, out) ==
  /\ \A other \in DOMAIN req : req[other].pc # "done"
  /\ out.nextSession <= MaxSessions
  /\ sessions' = out.sessions
  /\ nextSession' = out.nextSession
  /\ Set(r, [IdleReq EXCEPT !.pc = "done", !.apiKey = apiKey, !.error = error,
                            !.input = input, !.fingerprint = out.fingerprint,
                            !.res = out.res])

\* A request arrives: the middleware runs up to the rpc, or to the end when
\* authorizeApiKey makes no rpc.
Receive(r, apiKey, input) ==
  /\ server = "listening"
  /\ req[r].pc = "idle"
  /\ IF ~config.requireApiKey
       THEN Respond(r, NULL, NULL, input, Unprotected(input))
     ELSE IF IsNull(apiKey)
       THEN Respond(r, NULL, NULL, input, ApiKeyRequired)
     ELSE IF config.useDbKeys
       THEN /\ Set(r, [IdleReq EXCEPT !.pc = "rpc", !.apiKey = apiKey, !.p_now = Some(clock)])
            /\ UNCHANGED <<sessions, nextSession>>
     ELSE Respond(r, apiKey, NULL, input,
                  AfterAuthorize(input, AuthorizeByEnv(config, apiKey)))
  /\ UNCHANGED <<scored, ok_log, server, config, mgmt, clock, keys, usage_minute, usage_daily>>

\* supabase.rpc answers with an error: the function did not run.
RpcFail(r, errorMessage, input) ==
  /\ req[r].pc = "rpc"
  /\ Respond(r, req[r].apiKey, Some(errorMessage), input,
             AfterAuthorize(input, AuthorizeOnError(config, req[r].apiKey, errorMessage)))
  /\ UNCHANGED <<scored, ok_log, server, config, mgmt, clock, keys, usage_minute, usage_daily>>

\* A variant that takes the charge back when the handler rejects the request.
RpcReturnRefunds(r, input) ==
  /\ req[r].pc = "rpc_return"
  /\ LET out == AfterAuthorize(input, AuthorizeOnRow(req[r].apiKey, req[r].row))
         rejected == /\ ~IsNull(req[r].row)
                     /\ req[r].row.allowed
                     /\ out.res.status \in {Some(400), Some(403), Some(404)}
         Refund(table, k) == IF rejected THEN [table EXCEPT ![k] = @ - 1] ELSE table
     IN /\ Respond(r, req[r].apiKey, NULL, input, out)
        /\ usage_minute' = Refund(usage_minute, <<req[r].v_key.id, MinuteStart(Val(req[r].p_now))>>)
        /\ usage_daily' = Refund(usage_daily, <<req[r].v_key.id, UsageDate(Val(req[r].p_now))>>)
  /\ UNCHANGED <<scored, ok_log, server, config, mgmt, clock, keys>>

\* supabase.rpc answers with the row the function returned.
RpcReturn(r, input) ==
  /\ req[r].pc = "rpc_return"
  /\ Respond(r, req[r].apiKey, NULL, input,
             AfterAuthorize(input, AuthorizeOnRow(req[r].apiKey, req[r].row)))
  /\ UNCHANGED <<scored, ok_log, server, config, mgmt, clock, keys, usage_minute, usage_daily>>

\* The store never answers the rpc.  The await of authorizeApiKey has no
\* timer and no abort signal, so the request stays where it is: no action
\* has a guard on this position.
RpcLost(r) ==
  /\ req[r].pc = "rpc"
  /\ Set(r, [req[r] EXCEPT !.pc = "waiting"])
  /\ UNCHANGED <<scored, ok_log, server, config, mgmt, clock, keys, usage_minute, usage_daily, sessions, nextSession>>

\* res.on("finish"): the exchange is over.
Finish(r) ==
  /\ req[r].pc = "done"
  /\ Set(r, IdleReq)
  /\ UNCHANGED <<scored, ok_log, server, config, mgmt, clock, keys, usage_minute, usage_daily, sessions, nextSession>>

-----------------------------------------------------------------------------
(* consume_mcp_api_request, one action per statement *)

Return(r, row) ==
  Set(r, [req[r] EXCEPT !.pc = "rpc_return", !.row = row])

\* A variant that records the use of a key that is not active.
ConsumeSelectKeyTouchesRevoked(r) ==
  /\ req[r].pc = "rpc"
  /\ LET found == FindByHash(hashApiKey(req[r].apiKey)) IN
       IF IsNull(found)
         THEN Return(r, ConsumeRpcRow(FALSE, "invalid_key", NULL, NULL, NULL)) /\ UNCHANGED keys
       ELSE IF keys[Val(found)].status # "active"
         THEN /\ Return(r, ConsumeRpcRow(FALSE, "revoked_key", RowRead(keys[Val(found)]), NULL, NULL))
              /\ keys' = [keys EXCEPT ![Val(found)].last_used_at = req[r].p_now]
       ELSE Set(r, [req[r] EXCEPT !.pc = "minute", !.v_key = RowRead(keys[Val(found)])])
            /\ UNCHANGED keys
  /\ UNCHANGED <<scored, ok_log, server, config, mgmt, clock, usage_minute, usage_daily, sessions, nextSession>>

\* A variant without the status check.
ConsumeSelectKeyAnyStatus(r) ==
  /\ req[r].pc = "rpc"
  /\ LET found == FindByHash(hashApiKey(req[r].apiKey)) IN
       IF IsNull(found)
         THEN Return(r, ConsumeRpcRow(FALSE, "invalid_key", NULL, NULL, NULL))
         ELSE Set(r, [req[r] EXCEPT !.pc = "minute", !.v_key = RowRead(keys[Val(found)])])
  /\ UNCHANGED <<scored, ok_log, server, config, mgmt, clock, keys, usage_minute, usage_daily, sessions, nextSession>>

\* SELECT * INTO v_key .. ; IF NOT FOUND .. ; IF v_key.status <> 'active' ..
ConsumeSelectKey(r) ==
  /\ req[r].pc = "rpc"
  /\ LET found == FindByHash(hashApiKey(req[r].apiKey)) IN
       IF IsNull(found)
         THEN Return(r, ConsumeRpcRow(FALSE, "invalid_key", NULL, NULL, NULL))
       ELSE IF keys[Val(found)].status # "active"
         THEN Return(r, ConsumeRpcRow(FALSE, "revoked_key", RowRead(keys[Val(found)]), NULL, NULL))
       ELSE Set(r, [req[r] EXCEPT !.pc = "minute", !.v_key = RowRead(keys[Val(found)])])
  /\ UNCHANGED <<scored, ok_log, server, config, mgmt, clock, keys, usage_minute, usage_daily, sessions, nextSession>>

\* The INSERT .. ON CONFLICT on mcp_api_usage_minute (lines 122-150).
ConsumeMinute(r) ==
  /\ req[r].pc = "minute"
  /\ LET v_key    == req[r].v_key
         v_minute == MinuteStart(Val(req[r].p_now))
         after    == IF IsNull(v_key.per_minute_quota)
                       THEN UpsertAlways(usage_minute, v_key.id, v_minute)
                       ELSE UpsertIfBelow(usage_minute, v_key.id, v_minute,
                                          Val(v_key.per_minute_quota))
         v_minute_count == Returning(usage_minute, after, v_key.id, v_minute)
     IN /\ WithinCap(after)
        /\ usage_minute' = after
        /\ Set(r, [req[r] EXCEPT
             !.pc = IF IsNull(v_minute_count) THEN "minute_exceeded" ELSE "daily",
             !.v_minute_count = v_minute_count])
  /\ UNCHANGED <<scored, ok_log, server, config, mgmt, clock, keys, usage_daily, sessions, nextSession>>

\* A variant that goes on to the daily counter after the minute check failed.
ConsumeMinuteExceededContinues(r) ==
  /\ req[r].pc = "minute_exceeded"
  /\ Set(r, [req[r] EXCEPT !.pc = "daily"])
  /\ UNCHANGED <<scored, ok_log, server, config, mgmt, clock, keys, usage_minute, usage_daily, sessions, nextSession>>

\* IF v_minute_count IS NULL: SELECT request_count and return (lines 152-170).
ConsumeMinuteExceeded(r) ==
  /\ req[r].pc = "minute_exceeded"
  /\ LET v_key    == req[r].v_key
         v_minute == MinuteStart(Val(req[r].p_now))
         v_minute_count ==
           IF HasRow(usage_minute, v_key.id, v_minute)
             THEN Some(usage_minute[<<v_key.id, v_minute>>]) ELSE NULL
     IN Return(r, ConsumeRpcRow(FALSE, "minute_limit_exceeded", v_key, NULL, v_minute_count))
  /\ UNCHANGED <<scored, ok_log, server, config, mgmt, clock, keys, usage_minute, usage_daily, sessions, nextSession>>

\* A variant that counts the call before it checks the daily quota.
ConsumeDailyCountsDenied(r) ==
  /\ req[r].pc = "daily"
  /\ LET v_key == req[r].v_key
         v_day == UsageDate(Val(req[r].p_now))
         after == UpsertAlways(usage_daily, v_key.id, v_day)
         over  == /\ ~IsNull(v_key.daily_quota)
                  /\ ~BelowQuota(CountOf(usage_daily, v_key.id, v_day), Val(v_key.daily_quota))
     IN /\ WithinCap(after)
        /\ usage_daily' = after
        /\ Set(r, [req[r] EXCEPT
             !.pc = IF over THEN "daily_exceeded" ELSE "touch",
             !.v_daily_count = IF over THEN NULL ELSE Some(after[<<v_key.id, v_day>>])])
  /\ UNCHANGED <<scored, ok_log, server, config, mgmt, clock, keys, usage_minute, sessions, nextSession>>

\* The INSERT .. ON CONFLICT on mcp_api_usage_daily (lines 173-201).
ConsumeDaily(r) ==
  /\ req[r].pc = "daily"
  /\ LET v_key == req[r].v_key
         v_day == UsageDate(Val(req[r].p_now))
         after == IF IsNull(v_key.daily_quota)
                    THEN UpsertAlways(usage_daily, v_key.id, v_day)
                    ELSE UpsertIfBelow(usage_daily, v_key.id, v_day, Val(v_key.daily_quota))
         v_daily_count == Returning(usage_daily, after, v_key.id, v_day)
     IN /\ WithinCap(after)
        /\ usage_daily' = after
        /\ Set(r, [req[r] EXCEPT
             !.pc = IF IsNull(v_daily_count) THEN "daily_exceeded" ELSE "touch",
             !.v_daily_count = v_daily_count])
  /\ UNCHANGED <<scored, ok_log, server, config, mgmt, clock, keys, usage_minute, sessions, nextSession>>

\* A variant that gives the minute charge back before it returns.
ConsumeDailyExceededRefund(r) ==
  /\ req[r].pc = "daily_exceeded"
  /\ LET v_key    == req[r].v_key
         v_day    == UsageDate(Val(req[r].p_now))
         v_minute == MinuteStart(Val(req[r].p_now))
     IN /\ usage_minute' = [usage_minute EXCEPT ![<<v_key.id, v_minute>>] = @ - 1]
        /\ Return(r, ConsumeRpcRow(FALSE, "daily_limit_exceeded", v_key,
                                   Some(CountOf(usage_daily, v_key.id, v_day)),
                                   req[r].v_minute_count))
  /\ UNCHANGED <<scored, ok_log, server, config, mgmt, clock, keys, usage_daily, sessions, nextSession>>

\* IF v_daily_count IS NULL: SELECT request_count and return (lines 203-221).
ConsumeDailyExceeded(r) ==
  /\ req[r].pc = "daily_exceeded"
  /\ LET v_key == req[r].v_key
         v_day == UsageDate(Val(req[r].p_now))
         v_daily_count ==
           IF HasRow(usage_daily, v_key.id, v_day)
             THEN Some(usage_daily[<<v_key.id, v_day>>]) ELSE NULL
     IN Return(r, ConsumeRpcRow(FALSE, "daily_limit_exceeded", v_key,
                                v_daily_count, req[r].v_minute_count))
  /\ UNCHANGED <<scored, ok_log, server, config, mgmt, clock, keys, usage_minute, usage_daily, sessions, nextSession>>

\* A variant whose UPDATE has no WHERE clause.
ConsumeTouchEveryKey(r) ==
  /\ req[r].pc = "touch"
  /\ LET v_key == req[r].v_key IN
       /\ keys' = [id \in DOMAIN keys |-> [keys[id] EXCEPT !.last_used_at = req[r].p_now]]
       /\ UNCHANGED scored
       /\ ok_log' = UpsertAlways(ok_log, v_key.id, UsageDate(Val(req[r].p_now)))
       /\ Return(r, ConsumeRpcRow(TRUE, "ok", v_key,
                                  req[r].v_daily_count, req[r].v_minute_count))
  /\ UNCHANGED <<server, config, mgmt, clock, usage_minute, usage_daily, sessions, nextSession>>

\* A variant whose UPDATE writes the status it read along with last_used_at.
ConsumeTouchWritesStatus(r) ==
  /\ req[r].pc = "touch"
  /\ LET v_key == req[r].v_key IN
       /\ keys' = [keys EXCEPT ![v_key.id].last_used_at = req[r].p_now,
                               ![v_key.id].status = v_key.status]
       /\ UNCHANGED scored
       /\ ok_log' = UpsertAlways(ok_log, v_key.id, UsageDate(Val(req[r].p_now)))
       /\ Return(r, ConsumeRpcRow(TRUE, "ok", v_key,
                                  req[r].v_daily_count, req[r].v_minute_count))
  /\ UNCHANGED <<server, config, mgmt, clock, usage_minute, usage_daily, sessions, nextSession>>

\* UPDATE mcp_api_keys SET last_used_at = p_now WHERE id = v_key.id; return ok.
ConsumeTouch(r) ==
  /\ req[r].pc = "touch"
  /\ LET v_key == req[r].v_key IN
       /\ keys' = [keys EXCEPT ![v_key.id].last_used_at = req[r].p_now]
       /\ UNCHANGED scored
       /\ ok_log' = UpsertAlways(ok_log, v_key.id, UsageDate(Val(req[r].p_now)))
       /\ Return(r, ConsumeRpcRow(TRUE, "ok", v_key,
                                  req[r].v_daily_count, req[r].v_minute_count))
  /\ UNCHANGED <<server, config, mgmt, clock, usage_minute, usage_daily, sessions, nextSession>>


-----------------------------------------------------------------------------
(* Key management: scripts/createApiKey.ts and the self-service RPCs *)

HashTaken(secret) == \E id \in KeyIds : keys[id].key_hash = hashApiKey(secret)

\* createApiKey.ts main(): one INSERT with the parsed options.  key_hash is
\* UNIQUE: the INSERT of a secret that is already there fails.
CreateApiKey(secret, tier, dailyQuota, minuteQuota) ==
  /\ ~HashTaken(secret)
  /\ keys' = Append(keys, NewKeyRow(Len(keys) + 1, secret, tier,
                                    dailyQuota, minuteQuota, NULL))
  /\ UNCHANGED <<scored, ok_log, server, config, mgmt, clock, usage_minute, usage_daily, sessions, nextSession, req>>

\* A connection with no call in progress: v_user_id, p_key_id and v_updated
\* are those of the last revoke_user_api_key it answered.
IdleConn == [pc |-> "idle", v_user_id |-> NULL, p_key_id |-> NULL, v_updated |-> NULL]

ActiveKeysOf(user) ==
  Cardinality({ id \in KeyIds : keys[id].user_id = user /\ keys[id].status = "active" })

\* create_user_api_key up to the limit check: uid is auth.uid().
CreateUserKeyCount(c, uid) ==
  /\ mgmt[c].pc = "idle"
  /\ IF IsNull(uid)
       THEN UNCHANGED mgmt                      \* RAISE 'Not authenticated'
     ELSE IF ActiveKeysOf(uid) >= MaxActiveKeys
       THEN UNCHANGED mgmt                      \* RAISE 'Maximum of 3 active API keys'
     ELSE mgmt' = [mgmt EXCEPT ![c] = [IdleConn EXCEPT !.pc = "insert", !.v_user_id = uid]]
  /\ UNCHANGED <<scored, ok_log, server, config, clock, keys, usage_minute, usage_daily, sessions, nextSession, req>>

\* create_user_api_key from the key generation on: secret is the generated
\* raw key.  A digest that is already in the table aborts the call.
CreateUserKeyInsert(c, secret) ==
  /\ mgmt[c].pc = "insert"
  /\ mgmt' = [mgmt EXCEPT ![c] = IdleConn]
  /\ IF HashTaken(secret)
       THEN UNCHANGED keys
       ELSE keys' = Append(keys, NewKeyRow(Len(keys) + 1, secret, "free",
                                           Some(DefaultDailyQuota), Some(DefaultMinuteQuota),
                                           mgmt[c].v_user_id))
  /\ UNCHANGED <<scored, ok_log, server, config, clock, usage_minute, usage_daily, sessions, nextSession, req>>

\* A variant whose UPDATE does not ask for status = 'active'.
RevokeMatchesAnyStatus(uid, p_key_id) ==
  /\ p_key_id \in KeyIds
  /\ keys[p_key_id].user_id = uid

\* The UPDATE of revoke_user_api_key, and FOUND after it.
RevokeMatches(uid, p_key_id) ==
  /\ p_key_id \in KeyIds
  /\ keys[p_key_id].user_id = uid
  /\ keys[p_key_id].status = "active"

\* A variant that reports the revocation and leaves the status as it is.
revoke_user_api_keyKeepsStatus(c, uid, p_key_id) ==
  /\ mgmt[c].pc = "idle"
  /\ IF IsNull(uid)
       THEN UNCHANGED mgmt
       ELSE mgmt' = [mgmt EXCEPT ![c] =
                      [IdleConn EXCEPT !.v_user_id = uid, !.p_key_id = Some(p_key_id),
                                       !.v_updated = Some(RevokeMatches(uid, p_key_id))]]
  /\ UNCHANGED <<scored, ok_log, server, config, clock, keys, usage_minute, usage_daily, sessions, nextSession, req>>

\* A variant that deletes the usage rows of the key it revokes.
revoke_user_api_keyPurgesUsage(c, uid, p_key_id) ==
  /\ mgmt[c].pc = "idle"
  /\ IF IsNull(uid)
       THEN UNCHANGED <<keys, mgmt, usage_minute, usage_daily>>
       ELSE LET v_updated == RevokeMatches(uid, p_key_id)
                Kept(table) == IF v_updated
                                 THEN [k \in {x \in DOMAIN table : x[1] # p_key_id} |-> table[k]]
                                 ELSE table
            IN
              /\ keys' = IF v_updated
                           THEN [keys EXCEPT ![p_key_id].status = "revoked"]
                           ELSE keys
              /\ usage_minute' = Kept(usage_minute)
              /\ usage_daily' = Kept(usage_daily)
              /\ mgmt' = [mgmt EXCEPT ![c] =
                           [IdleConn EXCEPT !.v_user_id = uid, !.p_key_id = Some(p_key_id),
                                            !.v_updated = Some(v_updated)]]
  /\ UNCHANGED <<scored, ok_log, server, config, clock, sessions, nextSession, req>>

\* revoke_user_api_key on connection c: uid is auth.uid().  The function is
\* one UPDATE; it returns v_updated.
revoke_user_api_key(c, uid, p_key_id) ==
  /\ mgmt[c].pc = "idle"
  /\ IF IsNull(uid)
       THEN UNCHANGED <<keys, mgmt>>             \* RAISE 'Not authenticated'
       ELSE LET v_updated == RevokeMatches(uid, p_key_id) IN
              /\ keys' = IF v_updated
                           THEN [keys EXCEPT ![p_key_id].status = "revoked"]
                           ELSE keys
              /\ mgmt' = [mgmt EXCEPT ![c] =
                           [IdleConn EXCEPT !.v_user_id = uid, !.p_key_id = Some(p_key_id),
                                            !.v_updated = Some(v_updated)]]
  /\ UNCHANGED <<scored, ok_log, server, config, clock, usage_minute, usage_daily, sessions, nextSession, req>>

-----------------------------------------------------------------------------
(* The recommender's distance of a candidate from a modal                  *)
(* (src/utils/recommendationFeatures.ts)                                   *)

\* Math.abs on integers
abs(x) == IF x < 0 THEN -x ELSE x

\* timeBucketIndex(bucket)
timeBucketIndex(bucket) ==
  CASE bucket = "early" -> 0
    [] bucket = "prime" -> 1
    [] bucket = "late"  -> 2

\* timePenalty(current, target)
timePenalty(current, target) ==
  abs(timeBucketIndex(current) - timeBucketIndex(target))

\* A variant that takes the budget difference with its sign.
modalDistanceSigned(vector, target) ==
  abs(vector.energy - target.energy) +
  abs(vector.social - target.social) +
  abs(vector.discovery - target.discovery) +
  (vector.budget - target.budget) +
  timePenalty(vector.timeBucket, target.timeBucket)

\* modalDistance(vector, target)
modalDistance(vector, target) ==
  abs(vector.energy - target.energy) +
  abs(vector.social - target.social) +
  abs(vector.discovery - target.discovery) +
  abs(vector.budget - target.budget) +
  timePenalty(vector.timeBucket, target.timeBucket)

\* const distance = modalDistance(candidate.vector, modal.target)
ScoreCandidate ==
  /\ ~IsNull(scored)
  /\ IsNull(scored.distance)
  /\ scored' = [scored EXCEPT !.distance = Some(modalDistance(scored.vector, scored.target))]
  /\ UNCHANGED <<ok_log, server, config, mgmt, clock, keys, usage_minute, usage_daily,
                 sessions, nextSession, req>>

-----------------------------------------------------------------------------
(* Shutdown of the HTTP process (SIGINT, SIGTERM) *)

\* ids.map((id) => cleanupSession(id)): each call runs up to its first await,
\* which comes after sessions.delete.
RECURSIVE cleanupSessions(_, _)
cleanupSessions(table, ids) ==
  IF ids = {} THEN table
  ELSE LET id == CHOOSE x \in ids : TRUE IN
         cleanupSessions(cleanupSession(table, id), ids \ {id})

\* shutdown(signal) up to the await of the transports' close: the listener
\* takes no new connection and every session is cleaned up.  Requests that
\* are in flight go on, and a second signal runs the cleanup again.
shutdown ==
  /\ server \in {"listening", "closing"}
  /\ server' = "closing"
  /\ sessions' = cleanupSessions(sessions, DOMAIN sessions)
  /\ UNCHANGED <<scored, ok_log, config, mgmt, clock, keys, usage_minute, usage_daily, nextSession, req>>

\* process.exit(0): the process is gone and answers nothing more.
exit ==
  /\ server = "closing"
  /\ server' = "exited"
  /\ UNCHANGED <<scored, ok_log, config, mgmt, clock, keys, usage_minute, usage_daily, sessions, nextSession, req>>

-----------------------------------------------------------------------------
(* The clock of the HTTP process *)

Tick ==
  /\ clock < MaxClock
  /\ clock' = clock + 1
  /\ UNCHANGED <<scored, ok_log, server, config, mgmt, keys, usage_minute, usage_daily, sessions, nextSession, req>>

-----------------------------------------------------------------------------
(* Specifications *)

\* MCP_HTTP_API_KEYS as loadConfig splits it.
EnvKeySets == { {}, { <<"a", "b">> } }

Configs ==
  [ requireApiKey    : BOOLEAN,
    useDbKeys        : BOOLEAN,
    allowEnvFallback : BOOLEAN,
    envKeys          : EnvKeySets ]

\* The defaults of envSchema: MCP_HTTP_REQUIRE_API_KEY, MCP_HTTP_USE_DB_KEYS
\* and MCP_HTTP_ALLOW_ENV_KEY_FALLBACK are "true", MCP_HTTP_API_KEYS is unset.
DefaultConfig ==
  [ requireApiKey |-> TRUE, useDbKeys |-> TRUE, allowEnvFallback |-> TRUE, envKeys |-> {} ]

\* main() throws on this configuration before the server listens.
Misconfigured(cfg) ==
  cfg.requireApiKey /\ ~cfg.useDbKeys /\ cfg.envKeys = {}

\* The state after the migrations ran and main() of cfg started listening.
Started(cfg) ==
  /\ server = "listening"
  /\ config = cfg
  /\ clock = 0
  /\ keys = << >>
  /\ usage_minute = << >>
  /\ usage_daily = << >>
  /\ sessions = << >>
  /\ nextSession = 0
  /\ req = [r \in Reqs |-> IdleReq]
  /\ mgmt = [c \in Conns |-> IdleConn]
  /\ ok_log = << >>
  /\ scored = NULL

\* Requests that touch no session: GET /mcp without a session header.
SessionlessInputs == { input \in Inputs : input.method = "GET" /\ IsNull(input.sessionId) }

\* The statements of consume_mcp_api_request.
Consume(r) ==
  \/ ConsumeSelectKey(r)
  \/ ConsumeMinute(r)
  \/ ConsumeMinuteExceeded(r)
  \/ ConsumeDaily(r)
  \/ ConsumeDailyExceeded(r)
  \/ ConsumeTouch(r)

\* The runs of createApiKey.ts: one key, with every pair of quotas.
ScriptRuns ==
  [ secret : { <<"a", "a">> }, tier : Tiers,
    dailyQuota : QuotaValues, minuteQuota : QuotaValues ]

(* Spec: quota enforcement.  The process runs with the default            *)
(* configuration, a key is made by createApiKey.ts with any quotas the     *)
(* script accepts, and callers present its secret or an unknown one, two   *)
(* at a time; requests touch no session.                                   *)
PresentedSecrets == { <<"a", "a">>, <<"a", "b">> }

Init == Started(DefaultConfig)

Next ==
  \/ \E o \in ScriptRuns : CreateApiKey(o.secret, o.tier, o.dailyQuota, o.minuteQuota)
  \/ \E r \in Reqs, apiKey \in PresentedSecrets, input \in SessionlessInputs :
       Receive(r, apiKey, input)
  \/ \E r \in Reqs : Consume(r)
  \/ \E r \in Reqs, input \in SessionlessInputs : RpcReturn(r, input)
  \/ \E r \in Reqs : Finish(r)
  \/ Tick

Spec == Init /\ [][Next]_vars

(* SpecAuthz: the decision of authorizeApiKey under every configuration    *)
(* main() accepts, with an rpc that can fail.  One request at a time; the  *)
(* key in the table has a quota of one request per minute and one per day.  *)
AuthzRuns ==
  [ secret : { <<"a", "a">> }, tier : Tiers,
    dailyQuota : {Some(1)}, minuteQuota : {Some(1)} ]

InitAuthz ==
  \E cfg \in Configs : ~Misconfigured(cfg) /\ Started(cfg)

NextAuthz ==
  \/ \E o \in AuthzRuns : CreateApiKey(o.secret, o.tier, o.dailyQuota, o.minuteQuota)
  \/ \E apiKey \in Secrets \cup {NULL}, input \in SessionlessInputs :
       Receive("r1", apiKey, input)
  \/ \E errorMessage \in ErrorMessages, input \in SessionlessInputs :
       RpcFail("r1", errorMessage, input)
  \/ Consume("r1")
  \/ \E input \in SessionlessInputs : RpcReturn("r1", input)
  \/ Finish("r1")
  \/ Tick

SpecAuthz == InitAuthz /\ [][NextAuthz]_vars


\* The state after the migrations ran, when main() has loaded cfg and has not
\* yet reached its check of the key sources.
Starting(cfg) ==
  /\ server = "starting"
  /\ config = cfg
  /\ clock = 0
  /\ keys = << >>
  /\ usage_minute = << >>
  /\ usage_daily = << >>
  /\ sessions = << >>
  /\ nextSession = 0
  /\ req = [r \in Reqs |-> IdleReq]
  /\ mgmt = [c \in Conns |-> IdleConn]
  /\ ok_log = << >>
  /\ scored = NULL

\* main() from its check of the key sources to app.listen: it throws on a
\* configuration without a key source and listens otherwise.
main ==
  /\ server = "starting"
  /\ server' = IF Misconfigured(config) THEN "failed" ELSE "listening"
  /\ UNCHANGED <<scored, ok_log, config, mgmt, clock, keys, usage_minute, usage_daily, sessions, nextSession, req>>

(* SpecStartup: SpecAuthz from the start of main(), under every            *)
(* configuration loadConfig can return.                                    *)
InitStartup ==
  \E cfg \in Configs : Starting(cfg)

NextStartup ==
  \/ main
  \/ NextAuthz

SpecStartup == InitStartup /\ [][NextStartup]_vars

(* SpecStall: SpecAuthz with a store that may never answer.  Every step  *)
(* that can be taken is taken in the end: the event loop runs what is      *)
(* ready and time passes.                                                  *)
NextStall ==
  \/ NextAuthz
  \/ RpcLost("r1")

SpecStall == InitAuthz /\ [][NextStall]_vars /\ WF_vars(NextStall)

(* SpecHeaders: SpecAuthz with the credential taken from the headers of   *)
(* the request.  The x-api-key header is absent, blank, padded, or sent    *)
(* more than once; the authorization header is absent, a Bearer token in   *)
(* either case of the scheme name, another scheme, a scheme name alone, or *)
(* a bare token.                                                           *)
XApiKeyValues ==
  { Undefined,
    Str(<<" ">>),
    Str(<<" ", "a", "a", " ">>),
    Arr(<< >>),
    Arr(<<Str(<<" ">>), Str(<<"a", "b">>)>>) }

AuthorizationValues ==
  { Undefined,
    Str(<<"B", "e", "a", "r", "e", "r", " ", " ", "c">>),
    Str(<<"b", "e", "a", "r", "e", "r", " ", "a", "b">>),
    Str(<<"B", "a", "s", "i", "c", " ", "a", "a">>),
    Str(<<"B", "e", "a", "r", "e", "r", " ">>),
    Str(<<"a", "a">>) }

HeaderInputs ==
  [ method : {"GET"}, sessionId : {NULL}, isInit : {FALSE}, sdkAccepts : {FALSE},
    headers : [ x_api_key : XApiKeyValues, authorization : AuthorizationValues ] ]

\* The headers of the request whose rpc is under way.
SentBy(r) ==
  { input \in HeaderInputs : extractApiKeyFromHeaders(input.headers) = req[r].apiKey }

NextHeaders ==
  \/ \E o \in AuthzRuns : CreateApiKey(o.secret, o.tier, o.dailyQuota, o.minuteQuota)
  \/ \E input \in HeaderInputs :
       Receive("r1", extractApiKeyFromHeaders(input.headers), input)
  \/ \E errorMessage \in ErrorMessages, input \in SentBy("r1") :
       RpcFail("r1", errorMessage, input)
  \/ Consume("r1")
  \/ \E input \in SentBy("r1") : RpcReturn("r1", input)
  \/ Finish("r1")
  \/ Tick

SpecHeaders == InitAuthz /\ [][NextHeaders]_vars

(* SpecKeys: self-service keys.  Users create keys (with the quotas of     *)
(* create_user_api_key) and revoke them while requests are being served,   *)
(* one at a time, under the default configuration.  A key made by          *)
(* createApiKey.ts, good for two requests a minute and one a day, is there *)
(* too.  Key management runs on one connection.  The clock stands still.   *)
KeysRuns ==
  [ secret : { <<"c">> }, tier : Tiers, dailyQuota : {Some(1)}, minuteQuota : {Some(2)} ]

UserSecrets == { <<"a", "a">>, <<"a", "b">> }

NextKeys ==
  \/ \E o \in KeysRuns : CreateApiKey(o.secret, o.tier, o.dailyQuota, o.minuteQuota)
  \/ \E uid \in Users \cup {NULL} : CreateUserKeyCount("c1", uid)
  \/ \E secret \in UserSecrets : CreateUserKeyInsert("c1", secret)
  \/ \E uid \in Users \cup {NULL}, p_key_id \in 1..Cardinality(Secrets) :
       revoke_user_api_key("c1", uid, p_key_id)
  \/ \E apiKey \in Secrets, input \in SessionlessInputs : Receive("r1", apiKey, input)
  \/ Consume("r1")
  \/ \E input \in SessionlessInputs : RpcReturn("r1", input)
  \/ Finish("r1")

SpecKeys == Init /\ [][NextKeys]_vars

(* SpecGate: sessions of keys that get revoked or run out of quota.  The   *)
(* process runs with the default configuration.  One user creates a key    *)
(* and revokes it; the key made by createApiKey.ts is good for two         *)
(* requests a minute and one a day.  Requests of every method, with and    *)
(* without a session header, are served one at a time with either key or   *)
(* without one.  The clock stands still.                                   *)
GateSecrets == { <<"a", "a">>, <<"c">> }

NextGate ==
  \/ \E o \in KeysRuns : CreateApiKey(o.secret, o.tier, o.dailyQuota, o.minuteQuota)
  \/ CreateUserKeyCount("c1", <<"u1">>)
  \/ CreateUserKeyInsert("c1", <<"a", "a">>)
  \/ \E p_key_id \in 1..Cardinality(GateSecrets) : revoke_user_api_key("c1", <<"u1">>, p_key_id)
  \/ \E apiKey \in GateSecrets \cup {NULL}, input \in Inputs : Receive("r1", apiKey, input)
  \/ Consume("r1")
  \/ \E input \in Inputs : RpcReturn("r1", input)
  \/ Finish("r1")

SpecGate == Init /\ [][NextGate]_vars

(* SpecRevoke: revocation between calls in flight.  One user creates a    *)
(* key and revokes it while two requests at a time present that key or     *)
(* the key made by createApiKey.ts; requests touch no session.  The clock  *)
(* stands still.                                                          *)
NextRevoke ==
  \/ \E o \in KeysRuns : CreateApiKey(o.secret, o.tier, o.dailyQuota, o.minuteQuota)
  \/ CreateUserKeyCount("c1", <<"u1">>)
  \/ CreateUserKeyInsert("c1", <<"a", "a">>)
  \/ \E p_key_id \in 1..Cardinality(GateSecrets) : revoke_user_api_key("c1", <<"u1">>, p_key_id)
  \/ \E r \in Reqs, apiKey \in GateSecrets, input \in SessionlessInputs : Receive(r, apiKey, input)
  \/ \E r \in Reqs : Consume(r)
  \/ \E r \in Reqs, input \in SessionlessInputs : RpcReturn(r, input)
  \/ \E r \in Reqs : Finish(r)

SpecRevoke == Init /\ [][NextRevoke]_vars

(* SpecDistance: the recommender scores one candidate against one modal.  *)
(* The candidate's scores are what the derive functions return, whole      *)
(* numbers from 1 to 5, with any of the three time buckets; the modal is   *)
(* one of the anchors of constants/modals.ts or, to score a vector against *)
(* itself and both ways round, any candidate of a smaller grid.            *)
Scores == 1..5

TimeBuckets == {"early", "prime", "late"}

Vectors ==
  [ energy : Scores, social : Scores, discovery : Scores, budget : Scores,
    timeBucket : TimeBuckets ]

Vector(energy, social, discovery, budget, timeBucket) ==
  [ energy |-> energy, social |-> social, discovery |-> discovery, budget |-> budget,
    timeBucket |-> timeBucket ]

MODAL_ANCHORS ==
  { Vector(5, 3, 5, 3, "late"),  Vector(5, 5, 2, 4, "prime"), Vector(4, 3, 3, 3, "prime"),
    Vector(2, 2, 4, 4, "early"), Vector(4, 4, 2, 3, "late"),  Vector(4, 5, 3, 2, "prime"),
    Vector(5, 3, 5, 2, "prime"), Vector(2, 1, 5, 3, "early"), Vector(3, 4, 4, 3, "prime"),
    Vector(4, 4, 3, 4, "prime") }

InitDistance ==
  /\ server = "listening"
  /\ config = DefaultConfig
  /\ clock = 0
  /\ keys = << >>
  /\ usage_minute = << >>
  /\ usage_daily = << >>
  /\ sessions = << >>
  /\ nextSession = 0
  /\ req = [r \in Reqs |-> IdleReq]
  /\ mgmt = [c \in Conns |-> IdleConn]
  /\ ok_log = << >>
  /\ \E vector \in Vectors, target \in MODAL_ANCHORS :
       \/ scored = [vector |-> vector, target |-> target, distance |-> NULL]
       \/ scored = [vector |-> target, target |-> vector, distance |-> NULL]

NextDistance == ScoreCandidate

SpecDistance == InitDistance /\ [][NextDistance]_vars

(* SpecDenials: SpecKeys with an rpc that can fail for a fault of the       *)
(* network, so that every kind of denial occurs.                           *)
NextDenials ==
  \/ NextKeys
  \/ \E input \in SessionlessInputs : RpcFail("r1", FetchFailed, input)

SpecDenials == Init /\ [][NextDenials]_vars

(* SpecMgmt: key management alone.  One user, or a caller who is not       *)
(* authenticated, creates and revokes keys over two connections whose      *)
(* calls interleave statement by statement; no request is served.          *)
MgmtUsers == { <<"u1">> }

NextMgmt ==
  \/ \E c \in Conns, uid \in MgmtUsers \cup {NULL} : CreateUserKeyCount(c, uid)
  \/ \E c \in Conns, secret \in GeneratedSecrets : CreateUserKeyInsert(c, secret)
  \/ \E c \in Conns, uid \in MgmtUsers \cup {NULL}, p_key_id \in 1..Cardinality(GeneratedSecrets) :
       revoke_user_api_key(c, uid, p_key_id)

SpecMgmt == Init /\ [][NextMgmt]_vars

(* SpecSession: sessions.  One key is in the table, good for two           *)
(* requests a minute and one a day; two more secrets are fallback keys,    *)
(* one of them with the fingerprint of the key in the table.  Requests of  *)
(* every method, with and without a session header, are served two at a   *)
(* time, with and without enforcement; the rpc can fail for a missing      *)
(* function or for a fault of the network.  The clock stands still.        *)
SessionRuns ==
  [ secret : { <<"a", "a">> }, tier : Tiers, dailyQuota : {Some(1)}, minuteQuota : {Some(2)} ]

SessionConfigs ==
  [ requireApiKey    : BOOLEAN,
    useDbKeys        : {TRUE},
    allowEnvFallback : {TRUE},
    envKeys          : { { <<"a", "b">>, <<"c">> } } ]

InitSession ==
  \E cfg \in SessionConfigs : Started(cfg)

NextSession ==
  \/ \E o \in SessionRuns : CreateApiKey(o.secret, o.tier, o.dailyQuota, o.minuteQuota)
  \/ \E r \in Reqs, apiKey \in Secrets \cup {NULL}, input \in Inputs :
       Receive(r, apiKey, input)
  \/ \E r \in Reqs, errorMessage \in {FunctionNotFound, FetchFailed}, input \in Inputs :
       RpcFail(r, errorMessage, input)
  \/ \E r \in Reqs : Consume(r)
  \/ \E r \in Reqs, input \in Inputs : RpcReturn(r, input)
  \/ \E r \in Reqs : Finish(r)

SpecSession == InitSession /\ [][NextSession]_vars

(* SpecShutdown: sessions up to the end of the process.  SpecSession     *)
(* with one request at a time, and a signal that shuts the process down    *)
(* while a request may be waiting for the store.  The database goes on     *)
(* after the process has exited.                                           *)
NextShutdown ==
  \/ \E o \in SessionRuns : CreateApiKey(o.secret, o.tier, o.dailyQuota, o.minuteQuota)
  \/ \E apiKey \in Secrets \cup {NULL}, input \in Inputs : Receive("r1", apiKey, input)
  \/ /\ server # "exited"
     /\ \E errorMessage \in {FunctionNotFound, FetchFailed}, input \in Inputs :
          RpcFail("r1", errorMessage, input)
  \/ Consume("r1")
  \/ server # "exited" /\ \E input \in Inputs : RpcReturn("r1", input)
  \/ server # "exited" /\ Finish("r1")
  \/ shutdown
  \/ exit

SpecShutdown == InitSession /\ [][NextShutdown]_vars

-----------------------------------------------------------------------------
(* Properties *)

\* The window of slot r's call.
MinuteOf(r) == MinuteStart(Val(req[r].p_now))
DayOf(r) == UsageDate(Val(req[r].p_now))

\* Slot r takes a step of its request.
Steps(r) == req'[r] # req[r]

\* No table of the database changes.
StoreUnchanged == UNCHANGED <<keys, usage_minute, usage_daily>>

\* The calls of consume_mcp_api_request in flight for key id in minute w.
InFlight(id, w) ==
  { r \in DOMAIN req :
      /\ ~IsNull(req[r].v_key)
      /\ req[r].v_key.id = id
      /\ MinuteOf(r) = w }

\* Those of them that the minute check has admitted.
AdmittedByMinute(id, w) ==
  { r \in InFlight(id, w) :
      \/ req[r].pc \in {"daily", "daily_exceeded", "touch"}
      \/ /\ req[r].pc = "rpc_return"
         /\ req[r].row.reason \in {"ok", "daily_limit_exceeded"} }

\* C1: of the N calls in flight for one active key with a finite minute
\* quota Q and timestamps in one minute, the minute check never has admitted
\* more than min(N, Q).
C1_MinuteAdmissions ==
  \A id \in KeyIds :
    ~IsNull(keys[id].per_minute_quota) =>
      \A w \in 0..MaxClock :
        Cardinality(AdmittedByMinute(id, w))
          <= Min(Cardinality(InFlight(id, w)), Val(keys[id].per_minute_quota))

\* C2: in every reachable state the request_count of every usage row is at
\* most the quota of its key for that kind of window, when that quota is
\* finite; quotas are any the schema and createApiKey.ts accept.
C2_CountWithinQuota ==
  \A id \in KeyIds :
    /\ ~IsNull(keys[id].per_minute_quota) =>
         \A k \in DOMAIN usage_minute :
           k[1] = id => usage_minute[k] <= Val(keys[id].per_minute_quota)
    /\ ~IsNull(keys[id].daily_quota) =>
         \A k \in DOMAIN usage_daily :
           k[1] = id => usage_daily[k] <= Val(keys[id].daily_quota)

\* The conditional increment of one window, as the statement of slot r's call
\* performs it on table: applied exactly when the count is below the quota.
ConditionalIncrement(r, table, after, window, quota, admitted, denied, reported) ==
  LET id    == req[r].v_key.id
      count == CountOf(table, id, window)
  IN IF count < quota
       THEN /\ CountOf(after, id, window) = count + 1
            /\ req'[r].pc = admitted
            /\ reported = Some(count + 1)
       ELSE /\ after = table
            /\ req'[r].pc = denied

\* C3: with a finite quota, consume increments the counter of its window only
\* if the count (0 when the window has no row) is below the quota; an applied
\* increment admits and reports the count after it; otherwise the call is not
\* admitted and reports the count as it is.
C3_ConditionalIncrement ==
  [][\A r \in DOMAIN req :
       /\ (req[r].pc = "minute" /\ Steps(r) /\ ~IsNull(req[r].v_key.per_minute_quota)) =>
            ConditionalIncrement(r, usage_minute, usage_minute', MinuteOf(r),
                                 Val(req[r].v_key.per_minute_quota),
                                 "daily", "minute_exceeded", req'[r].v_minute_count)
       /\ (req[r].pc = "daily" /\ Steps(r) /\ ~IsNull(req[r].v_key.daily_quota)) =>
            ConditionalIncrement(r, usage_daily, usage_daily', DayOf(r),
                                 Val(req[r].v_key.daily_quota),
                                 "touch", "daily_exceeded", req'[r].v_daily_count)
       /\ (req[r].pc = "minute_exceeded" /\ Steps(r)) =>
            /\ ~req'[r].row.allowed
            /\ req'[r].row.minute_count =
                 Some(CountOf(usage_minute, req[r].v_key.id, MinuteOf(r)))
            /\ StoreUnchanged
       /\ (req[r].pc = "daily_exceeded" /\ Steps(r)) =>
            /\ ~req'[r].row.allowed
            /\ req'[r].row.daily_count =
                 Some(CountOf(usage_daily, req[r].v_key.id, DayOf(r)))
            /\ StoreUnchanged
       /\ (req[r].pc = "touch" /\ Steps(r)) =>
            /\ req'[r].row.allowed
            /\ req'[r].row.minute_count = req[r].v_minute_count
            /\ req'[r].row.daily_count = req[r].v_daily_count
    ]_vars

\* Error messages that do not say the function or its schema is missing.
GenericFaults ==
  { <<"canceling", "statement", "due", "to", "statement", "timeout">>,
    FetchFailed,
    << >> }

\* The exchange of slot r is over and its rpc returned an error.
RpcFailed(r) == req[r].pc = "done" /\ ~IsNull(req[r].error)

\* The response carries the headers of an admitted request.
Admitted(res) == ~IsNull(res.source)

\* The response is BackendUnavailable.
IsBackendUnavailable(res) ==
  /\ res.status = Some(500)
  /\ res.code = Some(-32603)
  /\ res.message =
       Some("API key validation backend is unavailable. Run DB migration for consume_mcp_api_request().")
  /\ ~Admitted(res)
  /\ IsNull(res.handledBy)

\* C4: with DB keys in use, an rpc error that is a generic fault is answered
\* with BackendUnavailable (500) and never with an admission, also when the
\* fallback is enabled and the presented key is a fallback key.
C4_GenericFaultDenies ==
  \A r \in DOMAIN req :
    (RpcFailed(r) /\ Val(req[r].error) \in GenericFaults) =>
      /\ config.useDbKeys
      /\ IsBackendUnavailable(req[r].res)
      /\ IsNull(req[r].fingerprint)

C4_Witness ==
  \E r \in DOMAIN req :
    /\ RpcFailed(r)
    /\ Val(req[r].error) \in GenericFaults
    /\ config.allowEnvFallback
    /\ req[r].apiKey \in config.envKeys
    /\ req[r].res.status = Some(500)

\* C5: after an rpc error the request is admitted only if the fallback is
\* enabled, the error has the signature of a missing function and the key is
\* one of the configured fallback keys; with the fallback disabled every rpc
\* error is answered with BackendUnavailable (500).
C5_ErrorAdmitsOnlyByFallback ==
  \A r \in DOMAIN req :
    RpcFailed(r) =>
      /\ Admitted(req[r].res) =>
           /\ config.allowEnvFallback
           /\ Val(req[r].error) \in ErrorMessages \ GenericFaults
           /\ req[r].apiKey \in config.envKeys
           /\ req[r].res.source = Some("env")
      /\ ~config.allowEnvFallback => IsBackendUnavailable(req[r].res)

C5_Witness ==
  \E r \in DOMAIN req :
    /\ RpcFailed(r)
    /\ Admitted(req[r].res)
    /\ req[r].apiKey \in config.envKeys
    /\ Val(req[r].error) \notin GenericFaults

\* Slot r's request has just been answered.
Answered(r) == req[r].pc # "done" /\ req'[r].pc = "done"

\* The response is the session/credential mismatch error.
IsSessionMismatch(res) ==
  /\ res.status = Some(403)
  /\ res.code = Some(-32003)
  /\ res.message = Some("Session not valid for this API key.")
  /\ IsNull(res.handledBy)

\* C6: with enforcement on, an admitted request that carries the id of an
\* existing session is forwarded to that session only if the fingerprint of
\* its key equals the fingerprint of the key that opened the session, and is
\* otherwise answered with the mismatch error (403), for POST, GET and DELETE;
\* the fingerprint a session keeps is its opener's and does not change.
C6_SessionBoundToFingerprint ==
  [][\A r \in DOMAIN req :
       (Answered(r) /\ config.requireApiKey /\ Admitted(req'[r].res)) =>
         LET input == req'[r].input
             res   == req'[r].res
             mine  == keyFingerprint(req'[r].apiKey)
         IN /\ (~IsNull(input.sessionId) /\ Val(input.sessionId) \in DOMAIN sessions) =>
                 LET bound == sessions[Val(input.sessionId)].apiKeyFingerprint IN
                   /\ input.method \in {"POST", "GET", "DELETE"}
                   /\ res.handledBy = input.sessionId => mine = bound
                   /\ mine # bound => IsSessionMismatch(res) /\ sessions' = sessions
            /\ \A s \in DOMAIN sessions' \ DOMAIN sessions :
                 /\ res.handledBy = Some(s)
                 /\ sessions'[s].apiKeyFingerprint = mine
            /\ \A s \in DOMAIN sessions' \cap DOMAIN sessions :
                 sessions'[s] = sessions[s]
    ]_vars

C6_Witness ==
  \E r \in DOMAIN req :
    /\ req[r].pc = "done"
    /\ config.requireApiKey
    /\ Admitted(req[r].res)
    /\ req[r].res.source = Some("db")
    /\ req[r].input.method = "DELETE"
    /\ ~IsNull(req[r].input.sessionId)
    /\ Val(req[r].input.sessionId) \in DOMAIN sessions
    /\ sessions[Val(req[r].input.sessionId)].apiKeyFingerprint # keyFingerprint(req[r].apiKey)
    /\ IsSessionMismatch(req[r].res)

\* No counter of a usage table goes away or down.
CountersKept(table, after) ==
  \A k \in DOMAIN table : k \in DOMAIN after /\ after[k] >= table[k]

\* C7: a call that passes the minute check and fails the daily check adds
\* one to the minute counter and nothing to the daily counter, returns
\* daily_limit_exceeded with the daily count as it is and the minute count as
\* the call left it, and no later step takes the minute charge back.
C7_DailyDenialKeepsMinuteCharge ==
  [][/\ \A r \in DOMAIN req :
          /\ (req[r].pc = "minute" /\ req'[r].pc = "daily") =>
               LET id == req[r].v_key.id
                   w  == MinuteOf(r)
               IN /\ CountOf(usage_minute', id, w) = CountOf(usage_minute, id, w) + 1
                  /\ req'[r].v_minute_count = Some(CountOf(usage_minute', id, w))
          /\ (req[r].pc = "daily" /\ req'[r].pc = "daily_exceeded") =>
               /\ StoreUnchanged
               /\ req'[r].v_minute_count = req[r].v_minute_count
          /\ req[r].pc = "daily_exceeded" =>
               CountOf(usage_daily', req[r].v_key.id, DayOf(r))
                 = CountOf(usage_daily, req[r].v_key.id, DayOf(r))
          /\ (req[r].pc = "daily_exceeded" /\ Steps(r)) =>
               /\ req'[r].pc = "rpc_return"
               /\ req'[r].row =
                    ConsumeRpcRow(FALSE, "daily_limit_exceeded", req[r].v_key,
                                  Some(CountOf(usage_daily, req[r].v_key.id, DayOf(r))),
                                  req[r].v_minute_count)
               /\ ~IsNull(req[r].v_minute_count)
               /\ StoreUnchanged
          /\ (req[r].pc = "rpc_return" /\ req[r].row.reason = "daily_limit_exceeded"
                /\ Steps(r)) =>
               /\ req'[r].pc = "done"
               /\ req'[r].res.status = Some(429)
               /\ req'[r].res.message = Some("Daily API quota exceeded.")
               /\ StoreUnchanged
     /\ CountersKept(usage_minute, usage_minute')
    ]_vars

C7_Witness ==
  \E r \in DOMAIN req :
    /\ req[r].pc = "rpc_return"
    /\ req[r].row.reason = "daily_limit_exceeded"
    /\ req[r].row.daily_quota = Some(1)
    /\ req[r].row.daily_count = Some(1)
    /\ req[r].row.minute_count = Some(2)
    /\ CountOf(usage_minute, req[r].v_key.id, MinuteOf(r)) = 2
    /\ CountOf(usage_daily, req[r].v_key.id, DayOf(r)) = 1

\* C8: for an active key whose counter of the current minute (0 when the
\* minute has no row yet) equals its finite minute quota, the call is denied
\* with minute_limit_exceeded, reports the counter as it is and a null daily
\* count, and changes neither usage table nor last_used_at; the request is
\* answered 429.
C8_MinuteDenialTouchesNothing ==
  [][\A r \in DOMAIN req :
       /\ (/\ req[r].pc = "minute"
           /\ Steps(r)
           /\ ~IsNull(req[r].v_key.per_minute_quota)
           /\ CountOf(usage_minute, req[r].v_key.id, MinuteOf(r))
                = Val(req[r].v_key.per_minute_quota)) =>
            /\ req'[r].pc = "minute_exceeded"
            /\ StoreUnchanged
       /\ req[r].pc = "minute_exceeded" =>
            CountOf(usage_minute', req[r].v_key.id, MinuteOf(r))
              = CountOf(usage_minute, req[r].v_key.id, MinuteOf(r))
       /\ (req[r].pc = "minute_exceeded" /\ Steps(r)) =>
            /\ req'[r].pc = "rpc_return"
            /\ req'[r].row =
                 ConsumeRpcRow(FALSE, "minute_limit_exceeded", req[r].v_key, NULL,
                               Some(CountOf(usage_minute, req[r].v_key.id, MinuteOf(r))))
            /\ StoreUnchanged
       /\ (req[r].pc = "rpc_return" /\ req[r].row.reason = "minute_limit_exceeded"
             /\ Steps(r)) =>
            /\ req'[r].pc = "done"
            /\ req'[r].res.status = Some(429)
            /\ req'[r].res.message = Some("Per-minute rate limit exceeded.")
            /\ StoreUnchanged
    ]_vars

C8_Witness ==
  \E r \in DOMAIN req :
    /\ req[r].pc = "rpc_return"
    /\ req[r].row.reason = "minute_limit_exceeded"
    /\ req[r].row.per_minute_quota = Some(MaxQuota)
    /\ req[r].row.minute_count = Some(MaxQuota)
    /\ IsNull(req[r].row.daily_count)
    /\ CountOf(usage_minute, req[r].v_key.id, MinuteOf(r)) = MaxQuota

\* The key whose hash is the hash of the secret slot r presents is not active.
PresentsInactiveKey(r, id) ==
  /\ keys[id].key_hash = hashApiKey(req[r].apiKey)
  /\ keys[id].status # "active"

\* C9: for a key whose status is not active the call is denied with
\* revoked_key, echoes the key's two quotas, reports both counts as null and
\* changes no usage row and no last_used_at; the request is answered 403.
C9_RevokedKeyTouchesNothing ==
  [][\A r \in DOMAIN req :
       /\ \A id \in KeyIds :
            (req[r].pc = "rpc" /\ Steps(r) /\ PresentsInactiveKey(r, id)) =>
              /\ req'[r].pc = "rpc_return"
              /\ ~req'[r].row.allowed
              /\ req'[r].row.reason = "revoked_key"
              /\ req'[r].row.api_key_id = Some(id)
              /\ req'[r].row.daily_quota = keys[id].daily_quota
              /\ req'[r].row.per_minute_quota = keys[id].per_minute_quota
              /\ IsNull(req'[r].row.daily_count)
              /\ IsNull(req'[r].row.minute_count)
              /\ StoreUnchanged
       /\ (req[r].pc = "rpc_return" /\ req[r].row.reason = "revoked_key" /\ Steps(r)) =>
            /\ req'[r].pc = "done"
            /\ req'[r].res.status = Some(403)
            /\ ~Admitted(req'[r].res)
            /\ StoreUnchanged
    ]_vars

C9_Witness ==
  \E r \in DOMAIN req :
    /\ req[r].pc = "rpc_return"
    /\ req[r].row.reason = "revoked_key"
    /\ req[r].row.daily_quota = Some(DefaultDailyQuota)
    /\ req[r].row.per_minute_quota = Some(DefaultMinuteQuota)
    /\ IsNull(req[r].row.daily_count)
    /\ CountOf(usage_daily, Val(req[r].row.api_key_id), DayOf(r)) = 1

\* The row of a denial that names no key.
AllNullRow(reason) ==
  [ allowed          |-> FALSE,
    reason           |-> reason,
    api_key_id       |-> NULL,
    key_name         |-> NULL,
    tier             |-> NULL,
    daily_quota      |-> NULL,
    daily_count      |-> NULL,
    per_minute_quota |-> NULL,
    minute_count     |-> NULL ]

\* C10: for a secret whose hash is the hash of no row of mcp_api_keys the
\* call is denied with invalid_key and every other field null, changes no
\* stored state, and the request is answered 403.
C10_UnknownKeyChangesNothing ==
  [][\A r \in DOMAIN req :
       /\ (/\ req[r].pc = "rpc"
           /\ Steps(r)
           /\ \A id \in KeyIds : keys[id].key_hash # hashApiKey(req[r].apiKey)) =>
            /\ req'[r].pc = "rpc_return"
            /\ req'[r].row = AllNullRow("invalid_key")
            /\ StoreUnchanged
       /\ (req[r].pc = "rpc_return" /\ req[r].row.reason = "invalid_key" /\ Steps(r)) =>
            /\ req'[r].pc = "done"
            /\ req'[r].res.status = Some(403)
            /\ req'[r].res.code = Some(-32003)
            /\ req'[r].res.message = Some("Invalid API key.")
            /\ ~Admitted(req'[r].res)
            /\ StoreUnchanged
            /\ UNCHANGED <<sessions, nextSession>>
    ]_vars

C10_Witness ==
  \E r \in DOMAIN req :
    /\ req[r].pc = "done"
    /\ req[r].apiKey = <<"a", "b">>
    /\ req[r].res.status = Some(403)
    /\ Len(keys) = 1
    /\ usage_minute # << >>

\* The sum of the counts of the rows ks of a usage table.
RECURSIVE SumOfCounts(_, _)
SumOfCounts(table, ks) ==
  IF ks = {} THEN 0
  ELSE LET k == CHOOSE x \in ks : TRUE IN table[k] + SumOfCounts(table, ks \ {k})

\* The calls for key id with a timestamp in day that the minute check has let
\* through: with an unlimited minute quota every call adds one to the counter
\* of its minute.
CallsOfDay(id, day) ==
  SumOfCounts(usage_minute,
              { k \in DOMAIN usage_minute : k[1] = id /\ UsageDate(k[2]) = day })

\* Slot r's call runs alone: no other call has read a key row and not yet
\* been answered.
RunsAlone(r) == \A other \in DOMAIN req \ {r} : IsNull(req[other].v_key)

\* Slot r's call is for a key with a finite daily and an unlimited minute quota.
DailyLimitedOnly(r) ==
  /\ ~IsNull(req[r].v_key)
  /\ ~IsNull(req[r].v_key.daily_quota)
  /\ IsNull(req[r].v_key.per_minute_quota)

\* C11: for an active key with a finite daily quota D and an unlimited minute
\* quota, the i-th of the calls of one day that run one after the other is
\* admitted with daily_count = i when i <= D, and is denied with
\* daily_limit_exceeded and daily_count = D when i > D.
C11_SequentialDailyCalls ==
  [][\A r \in DOMAIN req :
       DailyLimitedOnly(r) =>
         LET D  == Val(req[r].v_key.daily_quota)
             id == req[r].v_key.id
             i  == CallsOfDay(id, DayOf(r))
         IN /\ (req[r].pc = "daily" /\ Steps(r) /\ RunsAlone(r)) =>
                 IF i <= D
                   THEN /\ req'[r].pc = "touch"
                        /\ req'[r].v_daily_count = Some(i)
                        /\ CountOf(usage_daily', id, DayOf(r)) = i
                   ELSE /\ req'[r].pc = "daily_exceeded"
                        /\ CountOf(usage_daily', id, DayOf(r)) = D
            /\ (req[r].pc = "touch" /\ Steps(r)) =>
                 /\ req'[r].row.allowed
                 /\ req'[r].row.reason = "ok"
                 /\ req'[r].row.daily_count = req[r].v_daily_count
            /\ (req[r].pc = "daily_exceeded" /\ Steps(r)) =>
                 /\ ~req'[r].row.allowed
                 /\ req'[r].row.reason = "daily_limit_exceeded"
                 /\ req'[r].row.daily_count = Some(D)
    ]_vars

\* The second call of a day for a key good for one call a day has been denied.
C11_Witness ==
  \E r \in DOMAIN req :
    /\ req[r].pc = "rpc_return"
    /\ DailyLimitedOnly(r)
    /\ RunsAlone(r)
    /\ req[r].v_key.daily_quota = Some(MaxQuota)
    /\ CallsOfDay(req[r].v_key.id, DayOf(r)) = MaxQuota + 1
    /\ req[r].row.reason = "daily_limit_exceeded"
    /\ req[r].row.daily_count = Some(MaxQuota)

\* C12: on a window whose quota is unlimited (NULL) every call passes the
\* check of that window and adds exactly one to its counter, whatever the
\* count is; the call goes on with the count after the increment.
C12_UnlimitedAlwaysIncrements ==
  [][\A r \in DOMAIN req :
       /\ (req[r].pc = "minute" /\ Steps(r) /\ IsNull(req[r].v_key.per_minute_quota)) =>
            LET count == CountOf(usage_minute, req[r].v_key.id, MinuteOf(r)) IN
              /\ req'[r].pc = "daily"
              /\ CountOf(usage_minute', req[r].v_key.id, MinuteOf(r)) = count + 1
              /\ req'[r].v_minute_count = Some(count + 1)
       /\ (req[r].pc = "daily" /\ Steps(r) /\ IsNull(req[r].v_key.daily_quota)) =>
            LET count == CountOf(usage_daily, req[r].v_key.id, DayOf(r)) IN
              /\ req'[r].pc = "touch"
              /\ CountOf(usage_daily', req[r].v_key.id, DayOf(r)) = count + 1
              /\ req'[r].v_daily_count = Some(count + 1)
    ]_vars

\* A call for a key without quotas has been admitted on counters that were
\* not zero.
C12_Witness ==
  \E r \in DOMAIN req :
    /\ req[r].pc = "rpc_return"
    /\ req[r].row.allowed
    /\ IsNull(req[r].row.per_minute_quota)
    /\ IsNull(req[r].row.daily_quota)
    /\ req[r].row.minute_count = Some(MaxCount)
    /\ req[r].row.daily_count = Some(MaxCount)

\* The window before and the window after w, for the minute and for the day.
PrevMinute(w) == w - TicksPerMinute
PrevDay(d) == d - 1

\* Every row of table other than the row of (id, w) is as it was.
OtherRowsKept(table, after, id, w) ==
  \A k \in DOMAIN table : k # <<id, w>> => (k \in DOMAIN after /\ after[k] = table[k])

\* C13: counters of different windows are independent.  A call for a key
\* whose counter equals its finite quota Q >= 1 in window T, made in window
\* T+1 where the key has no row yet, passes the check of that window with
\* count 1; and a call changes no usage row of a window other than its own.
C13_WindowsIndependent ==
  [][\A r \in DOMAIN req :
       /\ (req[r].pc = "minute" /\ Steps(r)) =>
            LET id == req[r].v_key.id
                Q  == req[r].v_key.per_minute_quota
            IN /\ OtherRowsKept(usage_minute, usage_minute', id, MinuteOf(r))
               /\ usage_daily' = usage_daily
               /\ (/\ ~IsNull(Q) /\ Val(Q) >= 1
                   /\ CountOf(usage_minute, id, PrevMinute(MinuteOf(r))) = Val(Q)
                   /\ ~HasRow(usage_minute, id, MinuteOf(r))) =>
                    /\ req'[r].pc = "daily"
                    /\ req'[r].v_minute_count = Some(1)
                    /\ usage_minute'[<<id, MinuteOf(r)>>] = 1
       /\ (req[r].pc = "daily" /\ Steps(r)) =>
            LET id == req[r].v_key.id
                Q  == req[r].v_key.daily_quota
            IN /\ OtherRowsKept(usage_daily, usage_daily', id, DayOf(r))
               /\ usage_minute' = usage_minute
               /\ (/\ ~IsNull(Q) /\ Val(Q) >= 1
                   /\ CountOf(usage_daily, id, PrevDay(DayOf(r))) = Val(Q)
                   /\ ~HasRow(usage_daily, id, DayOf(r))) =>
                    /\ req'[r].pc = "touch"
                    /\ req'[r].v_daily_count = Some(1)
                    /\ usage_daily'[<<id, DayOf(r)>>] = 1
       /\ (Steps(r) /\ req[r].pc \notin {"minute", "daily"}) =>
            UNCHANGED <<usage_minute, usage_daily>>
    ]_vars

\* A key at its quota in one minute and in one day has been admitted in the
\* next minute of the next day, and the rows of the old windows are at Q.
C13_Witness ==
  \E r \in DOMAIN req :
    /\ req[r].pc = "rpc_return"
    /\ req[r].row.allowed
    /\ req[r].row.per_minute_quota = Some(MaxQuota)
    /\ req[r].row.daily_quota = Some(MaxQuota)
    /\ req[r].row.minute_count = Some(1)
    /\ req[r].row.daily_count = Some(1)
    /\ CountOf(usage_minute, req[r].v_key.id, PrevMinute(MinuteOf(r))) = MaxQuota
    /\ CountOf(usage_daily, req[r].v_key.id, PrevDay(DayOf(r))) = MaxQuota

\* C14: when the key has no usage row for the window of the call, the
\* statement of that window creates the row with request_count = 1 and the
\* check of the window lets the call through, whatever the quota of the key
\* (unlimited, zero or positive).
C14_FirstCallCreatesRow ==
  [][\A r \in DOMAIN req :
       /\ (/\ req[r].pc = "minute" /\ Steps(r)
           /\ ~HasRow(usage_minute, req[r].v_key.id, MinuteOf(r))) =>
            /\ HasRow(usage_minute', req[r].v_key.id, MinuteOf(r))
            /\ usage_minute'[<<req[r].v_key.id, MinuteOf(r)>>] = 1
            /\ req'[r].pc = "daily"
            /\ req'[r].v_minute_count = Some(1)
       /\ (/\ req[r].pc = "daily" /\ Steps(r)
           /\ ~HasRow(usage_daily, req[r].v_key.id, DayOf(r))) =>
            /\ HasRow(usage_daily', req[r].v_key.id, DayOf(r))
            /\ usage_daily'[<<req[r].v_key.id, DayOf(r)>>] = 1
            /\ req'[r].pc = "touch"
            /\ req'[r].v_daily_count = Some(1)
    ]_vars

\* The first call for a key with both quotas 0 created both rows and was
\* admitted.
C14_Witness ==
  \E r \in DOMAIN req :
    /\ req[r].pc = "rpc_return"
    /\ req[r].row.allowed
    /\ req[r].row.per_minute_quota = Some(0)
    /\ req[r].row.daily_quota = Some(0)
    /\ usage_minute = (<<req[r].v_key.id, MinuteOf(r)>> :> 1)
    /\ usage_daily = (<<req[r].v_key.id, DayOf(r)>> :> 1)

\* Connection c has just answered a call of revoke_user_api_key.
RevokeAnswered(c) ==
  /\ mgmt[c].pc = "idle"
  /\ mgmt'[c].pc = "idle"
  /\ mgmt'[c] # mgmt[c]
  /\ ~IsNull(mgmt'[c].v_updated)

\* C15: revoke_user_api_key on a key that is already revoked changes no
\* table and returns false; it returns true only for the call that takes the
\* caller's own key from active to revoked, so of two calls for one key the
\* first returns true and the second false, and the second leaves the state
\* the first one left.
C15_RevokeIdempotent ==
  [][\A c \in Conns :
       RevokeAnswered(c) =>
         LET id  == Val(mgmt'[c].p_key_id)
             uid == mgmt'[c].v_user_id
         IN /\ (id \in KeyIds /\ keys[id].status = "revoked") =>
                 /\ mgmt'[c].v_updated = Some(FALSE)
                 /\ StoreUnchanged
            /\ (id \in KeyIds /\ keys[id].status = "active" /\ keys[id].user_id = uid) =>
                 /\ mgmt'[c].v_updated = Some(TRUE)
                 /\ keys' = [keys EXCEPT ![id].status = "revoked"]
            /\ mgmt'[c].v_updated = Some(FALSE) => StoreUnchanged
    ]_vars

\* The owner of a revoked key called revoke_user_api_key for it again and
\* was answered false.
C15_Witness ==
  \E c \in Conns :
    /\ mgmt[c].pc = "idle"
    /\ mgmt[c].v_updated = Some(FALSE)
    /\ Val(mgmt[c].p_key_id) \in KeyIds
    /\ keys[Val(mgmt[c].p_key_id)].status = "revoked"
    /\ keys[Val(mgmt[c].p_key_id)].user_id = mgmt[c].v_user_id

\* C16: revoked is absorbing.  No step of consume_mcp_api_request,
\* create_user_api_key, revoke_user_api_key or of the request handling around
\* authorizeApiKey changes the status of a revoked key, and no row of
\* mcp_api_keys goes away.
C16_RevokedIsAbsorbing ==
  [][\A id \in KeyIds :
       keys[id].status = "revoked" =>
         /\ id \in DOMAIN keys'
         /\ keys'[id].status = "revoked"
    ]_vars

\* A call that read its key as active finished after the key was revoked:
\* it wrote last_used_at and the key is still revoked; the owner has made
\* another key since.
C16_Witness ==
  \E r \in DOMAIN req, id \in KeyIds, newer \in KeyIds :
    /\ req[r].pc = "rpc_return"
    /\ req[r].row.allowed
    /\ req[r].row.api_key_id = Some(id)
    /\ keys[id].status = "revoked"
    /\ ~IsNull(keys[id].last_used_at)
    /\ newer > id
    /\ keys[newer].user_id = keys[id].user_id
    /\ keys[newer].status = "active"

\* C17: no user ever owns more than three active keys, whatever calls of
\* create_user_api_key and revoke_user_api_key have run, calls of one user
\* on two connections at the same time included.
C17_AtMostThreeActiveKeys ==
  \A user \in Users : ActiveKeysOf(user) <= MaxActiveKeys

\* A user at the limit: three active keys and one revoked.
C17_Witness ==
  \E user \in Users :
    /\ ActiveKeysOf(user) = MaxActiveKeys
    /\ \E id \in KeyIds : keys[id].user_id = user /\ keys[id].status = "revoked"

\* The statements of consume_mcp_api_request and the wait for its answer.
InRpc == {"rpc", "minute", "minute_exceeded", "daily", "daily_exceeded", "touch", "rpc_return"}

\* C18: when the deployment requires keys and skips the durable store
\* (useDbKeys = false), no request is ever waiting on the store, no table is
\* written, and a request that presents a key is admitted if and only if the
\* key is one of the configured fallback keys.
C18_SkipStoreDecidesByFallbackKeys ==
  (config.requireApiKey /\ ~config.useDbKeys) =>
    /\ usage_minute = << >> /\ usage_daily = << >>
    /\ \A id \in KeyIds : IsNull(keys[id].last_used_at)
    /\ \A r \in DOMAIN req :
         /\ req[r].pc \notin InRpc
         /\ (req[r].pc = "done" /\ ~IsNull(req[r].apiKey)) =>
              /\ IsNull(req[r].error)
              /\ Admitted(req[r].res) <=> req[r].apiKey \in config.envKeys

\* With the store skipped and the fallback enabled, a fallback key has been
\* admitted.
C18_Witness ==
  \E r \in DOMAIN req :
    /\ config.requireApiKey /\ ~config.useDbKeys
    /\ req[r].pc = "done"
    /\ req[r].apiKey \in config.envKeys
    /\ Admitted(req[r].res)
    /\ req[r].res.source = Some("env")
    /\ Len(keys) = 1

\* What a denial sends: the status and the Retry-After header (NULL: none).
Sends(res, status, retryAfter) ==
  /\ res.status = Some(status)
  /\ res.retryAfter = retryAfter
  /\ ~Admitted(res)
  /\ IsNull(res.handledBy)

\* C19: each denial has a fixed transport outcome.  invalid_key and
\* revoked_key are answered 403 without Retry-After, minute_limit_exceeded
\* 429 with Retry-After 60, daily_limit_exceeded 429 with Retry-After 3600,
\* an unavailable backend 500 without Retry-After; a response carries a
\* Retry-After only if it is one of the two rate-limit denials.
C19_DenialOutcomes ==
  [][\A r \in DOMAIN req :
       Answered(r) =>
         LET res == req'[r].res IN
           /\ (req[r].pc = "rpc_return" /\ ~req[r].row.allowed) =>
                CASE req[r].row.reason \in {"invalid_key", "revoked_key"} ->
                       Sends(res, 403, NULL)
                  [] req[r].row.reason = "minute_limit_exceeded" ->
                       Sends(res, 429, Some(60))
                  [] req[r].row.reason = "daily_limit_exceeded" ->
                       Sends(res, 429, Some(3600))
                  [] OTHER -> FALSE
           /\ (req[r].pc = "rpc" /\ IsBackendUnavailable(res)) => Sends(res, 500, NULL)
           /\ ~IsNull(res.retryAfter) =>
                /\ res.status = Some(429)
                /\ req[r].pc = "rpc_return"
                /\ req[r].row.reason \in {"minute_limit_exceeded", "daily_limit_exceeded"}
    ]_vars

\* The per-minute denial of a key that has a revoked sibling has been sent.
C19_Witness ==
  \E r \in DOMAIN req :
    /\ req[r].pc = "done"
    /\ req[r].res.status = Some(429)
    /\ req[r].res.retryAfter = Some(60)
    /\ req[r].res.message = Some("Per-minute rate limit exceeded.")
    /\ \E id \in KeyIds : keys[id].status = "revoked"

\* The limit and remaining headers of one window, for a row that admits:
\* quota and count are the row's, limit and left the headers sent.
WindowHeaders(quota, count, limit, left) ==
  IF IsNull(quota)
    THEN IsNull(limit) /\ IsNull(left)
    ELSE /\ limit = quota
         /\ ~IsNull(left)
         /\ Val(left) >= 0
         /\ Val(left) = IF Val(quota) - Val(count) > 0 THEN Val(quota) - Val(count) ELSE 0

\* C20: the response to an admitted request carries, for each window with a
\* finite quota, the quota as limit and max(0, quota - count) as remaining,
\* never a negative number, and carries neither header for a window whose
\* quota is unlimited.
C20_RemainingHeaders ==
  [][\A r \in DOMAIN req :
       (Answered(r) /\ req[r].pc = "rpc_return" /\ req[r].row.allowed) =>
         LET row == req[r].row
             res == req'[r].res
         IN /\ Admitted(res)
            /\ res.source = Some("db")
            /\ WindowHeaders(row.daily_quota, row.daily_count,
                             res.dailyLimit, res.dailyRemaining)
            /\ WindowHeaders(row.per_minute_quota, row.minute_count,
                             res.minuteLimit, res.minuteRemaining)
    ]_vars

\* An admitted request was answered with a daily limit of 0 and 0 remaining
\* (the count is 1) and without the headers of the unlimited minute window.
C20_Witness ==
  \E r \in DOMAIN req :
    /\ req[r].pc = "done"
    /\ req[r].res.source = Some("db")
    /\ req[r].res.dailyLimit = Some(0)
    /\ req[r].res.dailyRemaining = Some(0)
    /\ IsNull(req[r].res.minuteLimit)
    /\ IsNull(req[r].res.minuteRemaining)
    /\ \E k \in DOMAIN usage_daily : usage_daily[k] = 1

\* Keys are required and the configuration gives no way to admit one: the
\* store is skipped and no fallback key can be used, because none is
\* configured or because the fallback is switched off.
NoKeySource(cfg) ==
  /\ cfg.requireApiKey
  /\ ~cfg.useDbKeys
  /\ (cfg.envKeys = {} \/ ~cfg.allowEnvFallback)

\* C21: when keys are required and no credential source is configured, the
\* server never listens and never takes a request; and a process that is
\* not listening (starting, or failed at startup) has served nothing.
C21_NoKeySourceFailsAtStartup ==
  /\ NoKeySource(config) => server # "listening"
  /\ server # "listening" =>
       /\ \A r \in DOMAIN req : req[r] = IdleReq
       /\ sessions = << >>
       /\ usage_minute = << >> /\ usage_daily = << >>

\* main() threw on a configuration that requires keys and has no source.
C21_Witness ==
  /\ server = "failed"
  /\ NoKeySource(config)

\* The fingerprint a session opened by slot r's request is bound to.
OpenerFingerprint(r) ==
  IF config.requireApiKey THEN keyFingerprint(req'[r].apiKey) ELSE <<"anonymous">>

Returns(r, reason) ==
  /\ req[r].pc # "rpc_return"
  /\ req'[r].pc = "rpc_return"
  /\ req'[r].row.reason = reason

\* C23: last_used_at of a key changes only in the step in which a call for
\* that key returns ok, and becomes that call's p_now; a call that returns
\* invalid_key, revoked_key, minute_limit_exceeded or daily_limit_exceeded
\* writes no last_used_at in any of its steps.
C23_LastUsedOnlyOnOk ==
  [][/\ \A id \in KeyIds :
          (id \in DOMAIN keys' /\ keys'[id].last_used_at # keys[id].last_used_at) =>
            \E r \in DOMAIN req :
              /\ Returns(r, "ok")
              /\ req'[r].row.allowed
              /\ req[r].v_key.id = id
              /\ keys'[id].last_used_at = req[r].p_now
     /\ \A r \in DOMAIN req :
          /\ (\E reason \in {"invalid_key", "revoked_key", "minute_limit_exceeded",
                             "daily_limit_exceeded"} : Returns(r, reason)) =>
               UNCHANGED keys
          /\ (Steps(r) /\ req[r].pc \in {"rpc", "minute", "minute_exceeded",
                                         "daily", "daily_exceeded"}) =>
               UNCHANGED keys
          /\ Returns(r, "ok") =>
               keys' = [keys EXCEPT ![req[r].v_key.id].last_used_at = req[r].p_now]
    ]_vars

\* A key was used, then revoked and presented again: the denial returns
\* and the key keeps the time of its one admitted use, while another revoked
\* key that was never admitted has no time of use.
C23_Witness ==
  \E r \in DOMAIN req, used \in KeyIds, unused \in KeyIds :
    /\ req[r].pc = "rpc_return"
    /\ req[r].row.reason = "revoked_key"
    /\ req[r].row.api_key_id = Some(used)
    /\ ~IsNull(keys[used].last_used_at)
    /\ keys[unused].status = "revoked"
    /\ IsNull(keys[unused].last_used_at)

\* C24: a request whose store call never answers is answered all the same,
\* with the denial of an unavailable backend.
C24_StalledCallIsDenied ==
  (req["r1"].pc = "waiting") ~>
    (req["r1"].pc = "done" /\ IsBackendUnavailable(req["r1"].res))

\* The store call of a request has not answered and time has run on to the
\* end: the request has no response, and nothing was charged for it.
C24_Witness ==
  /\ req["r1"].pc = "waiting"
  /\ clock = MaxClock
  /\ IsNull(req["r1"].res)
  /\ keys # << >>
  /\ DOMAIN usage_minute = {}

\* The response carries no rate-limit header.
NoRateLimitHeaders(res) ==
  /\ IsNull(res.dailyLimit)
  /\ IsNull(res.dailyRemaining)
  /\ IsNull(res.minuteLimit)
  /\ IsNull(res.minuteRemaining)

\* C25: an admission through the fallback key set is untracked.  The context
\* buildEnvContext makes has neither quotas nor counts and its source is not
\* that of a store-backed admission; the step that answers a request so
\* admitted changes no row of the keys table and no usage counter, and the
\* response has no rate-limit header and the source env, while every
\* admission made from a row of the store has the source db.
C25_FallbackAdmissionIsUntracked ==
  [][\A r \in DOMAIN req :
       Answered(r) =>
         LET res == req'[r].res IN
           /\ (Admitted(res) /\ req[r].pc # "rpc_return") =>
                LET context == buildEnvContext(req'[r].apiKey) IN
                  /\ config.requireApiKey
                  /\ isApiKeyAllowed(req'[r].apiKey, config.envKeys)
                  /\ IsNull(context.dailyQuota) /\ IsNull(context.dailyCount)
                  /\ IsNull(context.minuteQuota) /\ IsNull(context.minuteCount)
                  /\ context.source # "db"
                  /\ res.source = Some(context.source)
                  /\ res.tier = Some("free")
                  /\ NoRateLimitHeaders(res)
                  /\ StoreUnchanged
           /\ (Admitted(res) /\ req[r].pc = "rpc_return") =>
                /\ res.source = Some("db")
                /\ req[r].row.allowed
           /\ res.source = Some("env") => req[r].pc \in {"idle", "rpc"}
    ]_vars

\* The store holds the key a a, the rpc failed because the function is
\* missing, and the fallback key a b was admitted: the response has the
\* source env and no counter exists.
C25_Witness ==
  /\ req["r1"].pc = "done"
  /\ req["r1"].res.source = Some("env")
  /\ req["r1"].error = Some(FunctionNotFound)
  /\ req["r1"].apiKey = <<"a", "b">>
  /\ keys # << >>
  /\ DOMAIN usage_minute = {}
  /\ DOMAIN usage_daily = {}

\* The header carries some character that is not whitespace, in its one
\* value or in one of its values.
NonBlank(chars) == \E i \in DOMAIN chars : chars[i] # " "

HasValue(raw) ==
  \/ raw.type = "string" /\ NonBlank(raw.value)
  \/ /\ raw.type = "array"
     /\ \E i \in DOMAIN raw.value :
          raw.value[i].type = "string" /\ NonBlank(raw.value[i].value)

\* The header is a Bearer credential: the scheme name in any case, then
\* whitespace, then a token.
IsBearerCredential(raw) ==
  /\ raw.type = "string"
  /\ \E k \in DOMAIN raw.value :
       /\ \A i \in 1..(k - 1) : raw.value[i] = " "
       /\ k + 7 <= Len(raw.value)
       /\ [i \in 1..6 |-> raw.value[k + i - 1]] \in
            { <<"B", "e", "a", "r", "e", "r">>, <<"b", "e", "a", "r", "e", "r">> }
       /\ raw.value[k + 6] = " "
       /\ \E m \in (k + 7)..Len(raw.value) : raw.value[m] # " "

\* The request presents no credential in either header convention.
NoCredential(headers) ==
  /\ ~HasValue(headers.x_api_key)
  /\ ~IsBearerCredential(headers.authorization)

\* C26: with enforcement on, a request that presents no credential in the
\* x-api-key header and none as a Bearer token is answered in the step in
\* which it arrives, without a call of authorizeApiKey: the response is 401
\* with code -32001 and the Bearer challenge, no table of the store changes,
\* and a request that does reach the rpc presents a credential.
C26_NoCredentialIs401 ==
  [][\A r \in DOMAIN req :
       /\ (Answered(r) /\ config.requireApiKey /\ NoCredential(req'[r].input.headers)) =>
            LET res == req'[r].res IN
              /\ req[r].pc = "idle"
              /\ IsNull(req'[r].apiKey)
              /\ res.status = Some(401)
              /\ res.code = Some(-32001)
              /\ res.wwwAuthenticate = Some("Bearer")
              /\ ~Admitted(res)
              /\ StoreUnchanged
              /\ UNCHANGED <<sessions, nextSession>>
       /\ (Answered(r) /\ config.requireApiKey /\ req[r].pc # "idle") =>
            ~NoCredential(req'[r].input.headers)
       /\ (req[r].pc = "idle" /\ req'[r].pc = "rpc") =>
            \E input \in HeaderInputs :
              /\ ~NoCredential(input.headers)
              /\ extractApiKeyFromHeaders(input.headers) = req'[r].apiKey
    ]_vars

\* Enforcement is on and the store holds a key; a request whose x-api-key
\* header is blank and whose authorization header names another scheme was
\* answered 401 with the challenge, and no counter exists.
C26_Witness ==
  /\ config.requireApiKey
  /\ req["r1"].pc = "done"
  /\ req["r1"].input.headers.x_api_key = Str(<<" ">>)
  /\ req["r1"].input.headers.authorization = Str(<<"B", "a", "s", "i", "c", " ", "a", "a">>)
  /\ req["r1"].res.status = Some(401)
  /\ req["r1"].res.wwwAuthenticate = Some("Bearer")
  /\ keys # << >>
  /\ DOMAIN usage_minute = {}

\* The reasons consume_mcp_api_request can return.
Reasons ==
  {"invalid_key", "revoked_key", "minute_limit_exceeded", "daily_limit_exceeded", "ok"}

\* C27: a call of consume_mcp_api_request goes through lookup and status
\* check, minute counter, daily counter, in this order, and returns once,
\* with one of the five reasons; the row allows if and only if the reason is
\* ok, and the gateway admits if and only if the row allows.  A call that
\* fails at the lookup or the status check changes no counter, the minute
\* step leaves the daily counters alone, a call whose minute check failed
\* returns without a step on the daily counters, and a call whose daily
\* check failed returns without the final update of the key.
C27_FixedOrderOneOutcome ==
  [][/\ \A r \in DOMAIN req :
          Steps(r) =>
            /\ req[r].pc = "rpc" =>
                 /\ \/ req'[r].pc = "minute"
                    \/ Returns(r, "invalid_key")
                    \/ Returns(r, "revoked_key")
                 /\ StoreUnchanged
            /\ req[r].pc = "minute" =>
                 /\ req'[r].pc \in {"minute_exceeded", "daily"}
                 /\ req'[r].pc = "daily" <=> ~IsNull(req'[r].v_minute_count)
                 /\ UNCHANGED <<keys, usage_daily>>
            /\ req[r].pc = "minute_exceeded" =>
                 /\ Returns(r, "minute_limit_exceeded")
                 /\ StoreUnchanged
            /\ req[r].pc = "daily" =>
                 /\ req'[r].pc \in {"daily_exceeded", "touch"}
                 /\ req'[r].pc = "touch" <=> ~IsNull(req'[r].v_daily_count)
                 /\ ~IsNull(req[r].v_minute_count)
                 /\ UNCHANGED <<keys, usage_minute>>
            /\ req[r].pc = "daily_exceeded" =>
                 /\ Returns(r, "daily_limit_exceeded")
                 /\ StoreUnchanged
            /\ req[r].pc = "touch" =>
                 /\ Returns(r, "ok")
                 /\ ~IsNull(req[r].v_minute_count)
                 /\ ~IsNull(req[r].v_daily_count)
                 /\ UNCHANGED <<usage_minute, usage_daily>>
            /\ req'[r].pc = "rpc_return" =>
                 /\ req[r].pc \in {"rpc", "minute_exceeded", "daily_exceeded", "touch"}
                 /\ req'[r].row.reason \in Reasons
                 /\ req'[r].row.allowed <=> req'[r].row.reason = "ok"
            /\ req[r].pc = "rpc_return" =>
                 /\ Answered(r)
                 /\ Admitted(req'[r].res) <=> req[r].row.allowed
                 /\ StoreUnchanged
     /\ usage_minute' # usage_minute => \E r \in DOMAIN req : Steps(r) /\ req[r].pc = "minute"
     /\ usage_daily' # usage_daily => \E r \in DOMAIN req : Steps(r) /\ req[r].pc = "daily"
    ]_vars

\* A call for the script's key returned minute_limit_exceeded with the minute
\* counter at its quota of two, and the key's daily counter still holds the
\* one request that was admitted.
C27_Witness ==
  \E r \in DOMAIN req :
    /\ req[r].pc = "rpc_return"
    /\ req[r].row.reason = "minute_limit_exceeded"
    /\ ~req[r].row.allowed
    /\ req[r].row.minute_count = Some(2)
    /\ usage_daily[<<req[r].v_key.id, UsageDate(Val(req[r].p_now))>>] = 1

\* The rows of a usage table that the step adds.
NewRows(table, after) == DOMAIN after \ DOMAIN table

\* C28: no step deletes a usage row or lowers its count.  A row appears only
\* in the counter step of a call of consume_mcp_api_request, for that call's
\* key and window, with the count 1.  The steps of create-key and revoke, and
\* every step that changes the keys table, leave both usage tables as they
\* are; a key that has just been created has no usage row.
C28_UsageRowsLazyAndMonotone ==
  [][/\ CountersKept(usage_minute, usage_minute')
     /\ CountersKept(usage_daily, usage_daily')
     /\ \A k \in NewRows(usage_minute, usage_minute') :
          /\ usage_minute'[k] = 1
          /\ \E r \in DOMAIN req :
               /\ Steps(r) /\ req[r].pc = "minute"
               /\ k = <<req[r].v_key.id, MinuteOf(r)>>
     /\ \A k \in NewRows(usage_daily, usage_daily') :
          /\ usage_daily'[k] = 1
          /\ \E r \in DOMAIN req :
               /\ Steps(r) /\ req[r].pc = "daily"
               /\ k = <<req[r].v_key.id, DayOf(r)>>
     /\ (mgmt' # mgmt \/ keys' # keys) => UNCHANGED <<usage_minute, usage_daily>>
     /\ \A id \in DOMAIN keys' \ DOMAIN keys :
          \A k \in DOMAIN usage_minute' \cup DOMAIN usage_daily' : k[1] # id
    ]_vars

\* A user's key was used once and then revoked: its minute and daily rows
\* are still there with their counts, and a key created later has no row.
C28_Witness ==
  \E id \in KeyIds, later \in KeyIds :
    /\ keys[id].status = "revoked"
    /\ \E k \in DOMAIN usage_minute : k[1] = id /\ usage_minute[k] = 1
    /\ \E k \in DOMAIN usage_daily : k[1] = id /\ usage_daily[k] = 1
    /\ later > id
    /\ keys[later].status = "active"
    /\ \A k \in DOMAIN usage_minute \cup DOMAIN usage_daily : k[1] # later
    /\ \E c \in DOMAIN mgmt : mgmt[c].v_updated = Some(TRUE)

\* The request answered in this step reached a session: a transport handled
\* it, or the session table changed.
ReachesSession(r) ==
  \/ ~IsNull(req'[r].res.handledBy)
  \/ sessions' # sessions
  \/ nextSession' # nextSession

\* The request answered in this step asks for a session that is bound to
\* the fingerprint of the key it presents.
OwnSession(r) ==
  /\ ~IsNull(req'[r].input.sessionId)
  /\ Val(req'[r].input.sessionId) \in DOMAIN sessions
  /\ sessions[Val(req'[r].input.sessionId)].apiKeyFingerprint = keyFingerprint(req[r].apiKey)

\* C29: with enforcement on, a request reaches a session (is handled by a
\* transport, creates a session or closes one) only in the step in which
\* authorizeApiKey has admitted this very request: the rpc returned a row
\* that allows, or the key is in the fallback set, and the response carries
\* the headers of an admission.  A
\* request whose rpc returned revoked_key, minute_limit_exceeded or
\* daily_limit_exceeded is answered 403 or 429 without reaching a session,
\* also when it asks for the session its own key opened.
C29_SessionsOnlyForAdmitted ==
  [][\A r \in DOMAIN req :
       (Answered(r) /\ config.requireApiKey) =>
         /\ ReachesSession(r) =>
              /\ Admitted(req'[r].res)
              /\ req'[r].res.source = Some("db") =>
                   /\ req[r].pc = "rpc_return"
                   /\ req[r].row.allowed
                   /\ req[r].row.reason = "ok"
              /\ req'[r].res.source # Some("db") =>
                   /\ req'[r].res.source = Some("env")
                   /\ req[r].pc \in {"idle", "rpc"}
                   /\ isApiKeyAllowed(req'[r].apiKey, config.envKeys)
         /\ (req[r].pc = "rpc_return" /\ ~req[r].row.allowed) =>
              /\ ~ReachesSession(r)
              /\ ~Admitted(req'[r].res)
              /\ req'[r].res.status \in {Some(403), Some(429)}
              /\ req[r].row.reason = "revoked_key" => req'[r].res.status = Some(403)
              /\ req[r].row.reason \in {"minute_limit_exceeded", "daily_limit_exceeded"} =>
                   req'[r].res.status = Some(429)
         /\ IsNull(req'[r].apiKey) => ~ReachesSession(r)
    ]_vars

\* The user's key opened a session and was revoked; a request with this key
\* for this session was denied 403 as an invalid key, no transport handled
\* it and the session is still bound to the key's fingerprint.
C29_Witness ==
  \E s \in DOMAIN sessions, id \in KeyIds :
    /\ req["r1"].pc = "done"
    /\ req["r1"].input.sessionId = Some(s)
    /\ sessions[s].apiKeyFingerprint = keyFingerprint(req["r1"].apiKey)
    /\ sessions[s].apiKeyId = <<"uuid", id>>
    /\ keys[id].status = "revoked"
    /\ req["r1"].res.status = Some(403)
    /\ req["r1"].res.message = Some("Invalid API key.")
    /\ IsNull(req["r1"].res.handledBy)

\* The handlers' rejections of a request: unknown session, session of
\* another key, missing initialize request or missing session header.
RejectedByHandler(res) == res.status \in {Some(400), Some(403), Some(404)}

\* C30: the charge comes before the handlers.  A call that passes the
\* minute check adds one to the minute counter of its key, a call that
\* passes the daily check adds one to the daily counter, and both steps come
\* before the response; when the handler then rejects the admitted request
\* with 403 (session of another key), 404 (unknown session) or 400 (no
\* initialize request), the step changes no table: both counters keep the
\* charge, at or above the counts the call was told.  No step lowers a
\* counter.
C30_ChargeKeptOnHandlerRejection ==
  [][/\ CountersKept(usage_minute, usage_minute')
     /\ CountersKept(usage_daily, usage_daily')
     /\ \A r \in DOMAIN req :
          /\ (req[r].pc = "minute" /\ req'[r].pc = "daily") =>
               CountOf(usage_minute', req[r].v_key.id, MinuteOf(r)) =
                 CountOf(usage_minute, req[r].v_key.id, MinuteOf(r)) + 1
          /\ (req[r].pc = "daily" /\ req'[r].pc = "touch") =>
               CountOf(usage_daily', req[r].v_key.id, DayOf(r)) =
                 CountOf(usage_daily, req[r].v_key.id, DayOf(r)) + 1
          /\ (Answered(r) /\ req[r].pc = "rpc_return" /\ req[r].row.allowed) =>
               /\ Admitted(req'[r].res)
               /\ req'[r].res.source = Some("db")
               /\ RejectedByHandler(req'[r].res) =>
                    /\ IsNull(req'[r].res.handledBy)
                    /\ UNCHANGED <<sessions, nextSession>>
          /\ (Answered(r) /\ Admitted(req'[r].res) /\ req'[r].res.source = Some("db")) =>
               /\ req[r].pc = "rpc_return"
               /\ req[r].row.allowed
               /\ StoreUnchanged
               /\ Val(req[r].row.minute_count) >= 1
               /\ Val(req[r].row.daily_count) >= 1
               /\ CountOf(usage_minute', req[r].v_key.id, MinuteOf(r)) >=
                    Val(req[r].row.minute_count)
               /\ CountOf(usage_daily', req[r].v_key.id, DayOf(r)) >=
                    Val(req[r].row.daily_count)
    ]_vars

\* A request with the key of the store was admitted and charged, then
\* rejected 403 because the session belongs to another key: the response has
\* the source db and the key's minute and daily counters stand at one.
C30_Witness ==
  \E r \in DOMAIN req, id \in KeyIds :
    /\ req[r].pc = "done"
    /\ req[r].res.source = Some("db")
    /\ IsSessionMismatch(req[r].res)
    /\ RejectedByHandler(req[r].res)
    /\ keys[id].key_hash = hashApiKey(req[r].apiKey)
    /\ \E k \in DOMAIN usage_minute : k[1] = id /\ usage_minute[k] = 1
    /\ \E k \in DOMAIN usage_daily : k[1] = id /\ usage_daily[k] = 1

\* The calls for key id with a timestamp in day that have added one to the
\* daily counter and have not returned yet: the function is one transaction,
\* which commits the increment when it returns.
AboutToReturnOk(id, day) ==
  { r \in DOMAIN req :
      /\ req[r].pc = "touch"
      /\ req[r].v_key.id = id
      /\ DayOf(r) = day }

\* C31: for every key and day, the count of mcp_api_usage_daily (0 when
\* there is no row) is the number of calls for that key with a timestamp in
\* that day that returned reason ok, plus the calls that have passed the
\* daily check and are about to return ok; a call that returns a denial has
\* added nothing to the daily counter.
C31_DailyCountIsAdmittedCalls ==
  /\ \A k \in DOMAIN usage_daily \cup DOMAIN ok_log :
       CountOf(usage_daily, k[1], k[2]) =
         CountOf(ok_log, k[1], k[2]) + Cardinality(AboutToReturnOk(k[1], k[2]))
  /\ \A r \in DOMAIN req :
       (req[r].pc = "rpc_return" /\ ~req[r].row.allowed) => IsNull(req[r].v_daily_count)

\* On the second day the key has been admitted once on each day, a call of
\* the second day has been denied for the daily quota, and both daily rows
\* stand at one.
C31_Witness ==
  \E r \in DOMAIN req :
    /\ req[r].pc = "rpc_return"
    /\ req[r].row.reason = "daily_limit_exceeded"
    /\ DayOf(r) = 1
    /\ CountOf(usage_daily, req[r].v_key.id, 0) = 1
    /\ CountOf(usage_daily, req[r].v_key.id, 1) = 1
    /\ CountOf(ok_log, req[r].v_key.id, 1) = 1
    /\ CountOf(usage_minute, req[r].v_key.id, MinuteOf(r)) = 2

\* Slot r's call is for a key with a finite daily and a finite minute quota.
BothLimited(r) ==
  /\ ~IsNull(req[r].v_key)
  /\ ~IsNull(req[r].v_key.daily_quota)
  /\ ~IsNull(req[r].v_key.per_minute_quota)

\* C32: for a key with finite quotas D and M, a call that finds the minute
\* counter (0 when the minute has no row) below M adds one to it, and if it
\* then finds the daily counter (0 when the day has no row) at or above D it
\* is denied with daily_limit_exceeded, keeps the minute charge and is
\* answered 429 with Retry-After 3600; a call that finds the minute counter
\* at or above M is denied with minute_limit_exceeded without reaching the
\* daily check and is answered 429 with Retry-After 60.
C32_DailyThenMinuteDenial ==
  [][\A r \in DOMAIN req :
       BothLimited(r) =>
         LET id == req[r].v_key.id
             M  == Val(req[r].v_key.per_minute_quota)
             D  == Val(req[r].v_key.daily_quota)
             m  == CountOf(usage_minute, id, MinuteOf(r))
             d  == CountOf(usage_daily, id, DayOf(r))
         IN /\ (req[r].pc = "minute" /\ Steps(r) /\ m >= M) =>
                 /\ req'[r].pc = "minute_exceeded"
                 /\ StoreUnchanged
            /\ (req[r].pc = "minute" /\ Steps(r) /\ m < M) =>
                 /\ req'[r].pc = "daily"
                 /\ CountOf(usage_minute', id, MinuteOf(r)) = m + 1
            /\ (req[r].pc = "daily" /\ Steps(r) /\ d >= D) =>
                 /\ req'[r].pc = "daily_exceeded"
                 /\ StoreUnchanged
            /\ (req[r].pc = "minute_exceeded" /\ Steps(r)) =>
                 Returns(r, "minute_limit_exceeded")
            /\ (req[r].pc = "daily_exceeded" /\ Steps(r)) =>
                 /\ Returns(r, "daily_limit_exceeded")
                 /\ CountOf(usage_minute', id, MinuteOf(r)) >= Val(req[r].v_minute_count)
            /\ (req[r].pc = "rpc_return" /\ Steps(r)
                  /\ req[r].row.reason = "minute_limit_exceeded") =>
                 Sends(req'[r].res, 429, Some(60))
            /\ (req[r].pc = "rpc_return" /\ Steps(r)
                  /\ req[r].row.reason = "daily_limit_exceeded") =>
                 Sends(req'[r].res, 429, Some(3600))
    ]_vars

\* A key good for no request a day and one a minute: its first call of a day
\* was admitted.
C32_Witness ==
  \E r \in DOMAIN req :
    /\ req[r].pc = "rpc_return"
    /\ req[r].row.daily_quota = Some(0)
    /\ req[r].row.per_minute_quota = Some(1)
    /\ req[r].row.allowed
    /\ req[r].row.daily_count = Some(1)

\* What authorizeApiKey returns to the request that is answered in this step.
AuthResult(r) ==
  IF req[r].pc = "rpc_return" THEN AuthorizeOnRow(req[r].apiKey, req[r].row)
  ELSE IF req[r].pc = "rpc" THEN AuthorizeOnError(config, req[r].apiKey, Val(req'[r].error))
  ELSE AuthorizeByEnv(config, req'[r].apiKey)

\* C33: with enforcement on, the answer to a request that authorizeApiKey
\* does not admit is the same whatever session the request names.  Sent with
\* any other method, session header and body, against the same session
\* table, in which some ids exist and others do not, the request would get
\* the same status and error code and would leave the table as it is; a
\* request without a credential is answered 401 with code -32001 whatever
\* it names.
C33_DenialIndependentOfSessions ==
  [][\A r \in DOMAIN req :
       (Answered(r) /\ config.requireApiKey) =>
         /\ IsNull(req'[r].apiKey) =>
              /\ req'[r].res.status = Some(401)
              /\ req'[r].res.code = Some(-32001)
              /\ IsNull(req'[r].res.handledBy)
              /\ UNCHANGED <<sessions, nextSession>>
         /\ (~IsNull(req'[r].apiKey) /\ ~AuthResult(r).ok) =>
              /\ req'[r].res.status \in {Some(403), Some(429), Some(500)}
              /\ IsNull(req'[r].res.handledBy)
              /\ UNCHANGED <<sessions, nextSession>>
              /\ \A other \in Inputs :
                   LET out == AfterAuthorize(other, AuthResult(r)) IN
                     /\ out.res.status = req'[r].res.status
                     /\ out.res.code = req'[r].res.code
                     /\ out.res.message = req'[r].res.message
                     /\ out.sessions = sessions
    ]_vars

\* Session 1 exists and session 2 does not.  A request with a revoked key
\* that names session 1 was denied 403 with the code of an invalid key.
C33_Witness ==
  \E id \in KeyIds :
    /\ DOMAIN sessions = {1}
    /\ req["r1"].pc = "done"
    /\ req["r1"].input.sessionId = Some(1)
    /\ keys[id].status = "revoked"
    /\ keys[id].key_hash = hashApiKey(req["r1"].apiKey)
    /\ req["r1"].res.status = Some(403)
    /\ req["r1"].res.code = Some(-32003)
    /\ ~IsSessionMismatch(req["r1"].res)

\* A revoke_user_api_key call completes in this step and reports that it
\* revoked key id.
RevokeCompletes(c, id) ==
  /\ mgmt'[c].pc = "idle"
  /\ mgmt'[c].v_updated = Some(TRUE)
  /\ mgmt'[c].p_key_id = Some(id)
  /\ keys[id].status = "active"

\* Slot r's call presents the secret of key id and has not read the row yet.
StartedFor(r, id) ==
  /\ req[r].pc = "rpc"
  /\ keys[id].key_hash = hashApiKey(req[r].apiKey)

\* The rows of key id in both usage tables and its last_used_at are as they
\* were.
KeyUntouched(id) ==
  /\ \A k \in DOMAIN usage_minute' \cup DOMAIN usage_minute :
       k[1] = id => (k \in DOMAIN usage_minute /\ k \in DOMAIN usage_minute'
                     /\ usage_minute'[k] = usage_minute[k])
  /\ \A k \in DOMAIN usage_daily' \cup DOMAIN usage_daily :
       k[1] = id => (k \in DOMAIN usage_daily /\ k \in DOMAIN usage_daily'
                     /\ usage_daily'[k] = usage_daily[k])
  /\ keys'[id].last_used_at = keys[id].last_used_at

\* C34: a revoke that reports success leaves the key revoked, and it stays
\* revoked with its hash.  A request that arrives once the key is revoked, or
\* that has not read the row by then, is denied: its call returns
\* revoked_key in the step in which it reads the row, changes no table, and
\* is answered 403, whatever the other slot does meanwhile.  The usage rows
\* and last_used_at of a revoked key change only in steps of calls that read
\* the row while the key was active.
C34_RevokedKeyDeniesLaterCalls ==
  [][/\ \A c \in DOMAIN mgmt, id \in KeyIds :
          (mgmt'[c] # mgmt[c] /\ RevokeCompletes(c, id)) => keys'[id].status = "revoked"
     /\ \A id \in KeyIds :
          keys[id].status = "revoked" =>
            /\ keys'[id].status = "revoked"
            /\ keys'[id].key_hash = keys[id].key_hash
            /\ \A r \in DOMAIN req :
                 /\ (req[r].pc = "idle" /\ req'[r].pc = "rpc"
                       /\ keys[id].key_hash = hashApiKey(req'[r].apiKey)) =>
                      /\ IsNull(req'[r].v_key)
                      /\ StoreUnchanged
                 /\ (StartedFor(r, id) /\ Steps(r)) =>
                      /\ Returns(r, "revoked_key")
                      /\ ~req'[r].row.allowed
                      /\ req'[r].row.api_key_id = Some(id)
                      /\ IsNull(req'[r].v_key)
                      /\ StoreUnchanged
                 /\ (req[r].pc = "rpc_return" /\ req[r].row.reason = "revoked_key"
                       /\ req[r].row.api_key_id = Some(id) /\ Steps(r)) =>
                      /\ Answered(r)
                      /\ req'[r].res.status = Some(403)
                      /\ ~Admitted(req'[r].res)
                      /\ StoreUnchanged
            /\ ~KeyUntouched(id) =>
                 \E r \in DOMAIN req :
                   /\ Steps(r)
                   /\ req[r].pc \in {"minute", "daily", "touch"}
                   /\ req[r].v_key.id = id
                   /\ req[r].v_key.status = "active"
    ]_vars

\* The user's key is revoked.  One call for it, which read the row before
\* the revoke, has returned ok; another, which read the row after it, has
\* returned revoked_key; the key made by the script has been used as well.
C34_Witness ==
  \E id \in KeyIds, other \in KeyIds :
    /\ keys[id].status = "revoked"
    /\ mgmt["c1"].v_updated = Some(TRUE)
    /\ req["r1"].pc = "rpc_return"
    /\ req["r1"].row.reason = "ok"
    /\ req["r1"].v_key.id = id
    /\ req["r2"].pc = "rpc_return"
    /\ req["r2"].row.reason = "revoked_key"
    /\ req["r2"].row.api_key_id = Some(id)
    /\ other # id
    /\ \E k \in DOMAIN usage_daily : k[1] = other
    /\ CountOf(usage_daily, id, DayOf("r1")) = 1

\* Slot r's call is inside consume_mcp_api_request.
InConsume(r) ==
  req[r].pc \in {"rpc", "minute", "minute_exceeded", "daily", "daily_exceeded", "touch"}

\* The usage rows of key id are as they were and none is new.
UsageRowsKept(table, after, id) ==
  \A k \in DOMAIN table \cup DOMAIN after :
    k[1] = id => (k \in DOMAIN table /\ k \in DOMAIN after /\ after[k] = table[k])

\* C35: a step of a consume call that presents the secret of key A, or of no
\* key, leaves every other key B as it is: the row of B in mcp_api_keys
\* (quotas, status, last_used_at and the rest) and the rows of B in both
\* usage tables; it adds no key, and of A's own row it changes nothing but
\* last_used_at.
C35_ConsumeTouchesOnlyItsKey ==
  [][\A r \in DOMAIN req :
       (InConsume(r) /\ Steps(r)) =>
         /\ Len(keys') = Len(keys)
         /\ \A B \in KeyIds :
              IF keys[B].key_hash # hashApiKey(req[r].apiKey)
                THEN /\ keys'[B] = keys[B]
                     /\ UsageRowsKept(usage_minute, usage_minute', B)
                     /\ UsageRowsKept(usage_daily, usage_daily', B)
                ELSE keys'[B] = [keys[B] EXCEPT !.last_used_at = keys'[B].last_used_at]
    ]_vars

\* Both keys exist and each has been used: the user's key once, the
\* script's key twice in the minute and once in the day; the second call
\* for the script's key is returning its denial and the user's key keeps
\* its own counts.
C35_Witness ==
  \E A \in KeyIds, B \in KeyIds, r \in DOMAIN req :
    /\ A # B
    /\ req[r].pc = "rpc_return"
    /\ req[r].row.reason = "daily_limit_exceeded"
    /\ req[r].v_key.id = A
    /\ CountOf(usage_minute, A, MinuteOf(r)) = 2
    /\ CountOf(usage_daily, A, DayOf(r)) = 1
    /\ CountOf(usage_minute, B, MinuteOf(r)) = 1
    /\ CountOf(usage_daily, B, DayOf(r)) = 1
    /\ ~IsNull(keys[A].last_used_at)
    /\ ~IsNull(keys[B].last_used_at)
    /\ keys[B].status = "active"

\* The calls in flight that passed the check of minute w (of day d) of key id.
PassedMinute(id, w) ==
  { r \in DOMAIN req :
      ~IsNull(req[r].v_key) /\ req[r].v_key.id = id /\ MinuteOf(r) = w
        /\ ~IsNull(req[r].v_minute_count) /\ req[r].pc # "minute_exceeded" }

PassedDaily(id, d) ==
  { r \in DOMAIN req :
      ~IsNull(req[r].v_key) /\ req[r].v_key.id = id /\ DayOf(r) = d
        /\ ~IsNull(req[r].v_daily_count) /\ req[r].pc # "daily_exceeded" }

\* Two calls in flight that passed the check of the same window of the same
\* key hold different counts, and no count held is above the stored one.
HoldersDistinct ==
  \A r1 \in DOMAIN req :
    ~IsNull(req[r1].v_key) =>
      LET id == req[r1].v_key.id IN
        /\ r1 \in PassedMinute(id, MinuteOf(r1)) =>
             /\ Val(req[r1].v_minute_count) <= CountOf(usage_minute, id, MinuteOf(r1))
             /\ \A r2 \in PassedMinute(id, MinuteOf(r1)) \ {r1} :
                  req[r1].v_minute_count # req[r2].v_minute_count
        /\ r1 \in PassedDaily(id, DayOf(r1)) =>
             /\ Val(req[r1].v_daily_count) <= CountOf(usage_daily, id, DayOf(r1))
             /\ \A r2 \in PassedDaily(id, DayOf(r1)) \ {r1} :
                  req[r1].v_daily_count # req[r2].v_daily_count

\* C36: no update of a counter is lost.  A call that passes the check of a
\* window adds exactly one to the stored count and is told the count it
\* left; no other step changes a stored count, so the k-th pass of a window
\* leaves the count k; and two calls in flight that passed the check of the
\* same window of the same key hold different counts, none above the stored
\* one.
C36_NoLostUpdate ==
  [][/\ \A r \in DOMAIN req :
          /\ (req[r].pc = "minute" /\ req'[r].pc = "daily") =>
               LET id == req[r].v_key.id
                   w  == MinuteOf(r)
               IN /\ CountOf(usage_minute', id, w) = CountOf(usage_minute, id, w) + 1
                  /\ req'[r].v_minute_count = Some(CountOf(usage_minute', id, w))
                  /\ OtherRowsKept(usage_minute, usage_minute', id, w)
          /\ (req[r].pc = "daily" /\ req'[r].pc = "touch") =>
               LET id == req[r].v_key.id
                   d  == DayOf(r)
               IN /\ CountOf(usage_daily', id, d) = CountOf(usage_daily, id, d) + 1
                  /\ req'[r].v_daily_count = Some(CountOf(usage_daily', id, d))
                  /\ OtherRowsKept(usage_daily, usage_daily', id, d)
     /\ usage_minute' # usage_minute =>
          \E r \in DOMAIN req : req[r].pc = "minute" /\ req'[r].pc = "daily"
     /\ usage_daily' # usage_daily =>
          \E r \in DOMAIN req : req[r].pc = "daily" /\ req'[r].pc = "touch"
     /\ HoldersDistinct /\ HoldersDistinct'
    ]_vars

\* Two calls for the user's key ran at the same time and both passed both
\* checks: one holds the counts 1 and 1, the other 2 and 2, and the stored
\* counts are 2 and 2.
C36_Witness ==
  \E id \in KeyIds :
    /\ req["r1"].pc = "touch" /\ req["r2"].pc = "touch"
    /\ req["r1"].v_key.id = id /\ req["r2"].v_key.id = id
    /\ {req["r1"].v_minute_count, req["r2"].v_minute_count} = {Some(1), Some(2)}
    /\ {req["r1"].v_daily_count, req["r2"].v_daily_count} = {Some(1), Some(2)}
    /\ CountOf(usage_minute, id, MinuteOf("r1")) = 2
    /\ CountOf(usage_daily, id, DayOf("r1")) = 2


\* Session s has been handed out and is no longer in the table: it was closed.
Closed(s) == s \in 1..nextSession /\ s \notin DOMAIN sessions

\* The request answered in this step was not stopped by the middleware.
PassesCheck(r) == ~config.requireApiKey \/ Admitted(req'[r].res)

\* The request answered in this step carries the id of a closed session.
NamesClosed(r) ==
  /\ Answered(r)
  /\ ~IsNull(req'[r].input.sessionId)
  /\ Closed(Val(req'[r].input.sessionId))

\* The answer of slot r is the handlers' "Unknown session ID.".
UnknownSession(r) ==
  /\ req'[r].res.status = Some(404)
  /\ req'[r].res.code = Some(-32004)
  /\ req'[r].res.message = Some("Unknown session ID.")
  /\ IsNull(req'[r].res.handledBy)

\* C37 (as amended): a session that is closed, by the session-closed callback
\* of a handled DELETE or by the cleanup of a shutdown, leaves the session
\* table in that step and never comes back; every later request that carries
\* its id and passes the credential check (or arrives with enforcement off)
\* is answered 404 "Unknown session ID." and changes nothing in the table;
\* cleanupSession of an id that is not in the table returns the table as it is.
C37_ClosedSessionIsUnknown ==
  [][/\ \A r \in DOMAIN req :
          (Answered(r) /\ req'[r].input.method = "DELETE"
                       /\ ~IsNull(req'[r].res.handledBy))
            => /\ Val(req'[r].res.handledBy) \in DOMAIN sessions
               /\ Val(req'[r].res.handledBy) \notin DOMAIN sessions'
               /\ Val(req'[r].res.handledBy) <= nextSession'
     /\ (server' = "closing" /\ UNCHANGED <<req, keys>>)
          => DOMAIN sessions' = {}
     /\ \A s \in SessionIds : Closed(s) => Closed(s)'
     /\ \A r \in DOMAIN req :
          (NamesClosed(r) /\ PassesCheck(r))
            => UnknownSession(r) /\ UNCHANGED <<sessions, nextSession>>
     /\ \A id \in SessionIds \ DOMAIN sessions : cleanupSession(sessions, id) = sessions
     /\ \A id \in SessionIds \ DOMAIN sessions' : cleanupSession(sessions', id) = sessions'
    ]_vars

\* C37 as stated: every later request that carries the id of a closed
\* session is answered 404, the ones the middleware denies included.
C37_EveryLaterRequestIsUnknown ==
  [][\A r \in DOMAIN req : NamesClosed(r) => UnknownSession(r)]_vars

\* The process is shutting down, and a request admitted with a key has been
\* answered "Unknown session ID." for a session that is closed.
C37_Witness ==
  \E r \in DOMAIN req :
    /\ server = "closing"
    /\ req[r].pc = "done"
    /\ config.requireApiKey
    /\ Admitted(req[r].res)
    /\ ~IsNull(req[r].input.sessionId)
    /\ Closed(Val(req[r].input.sessionId))
    /\ req[r].res.status = Some(404)
    /\ req[r].res.code = Some(-32004)


\* The request answered in this step names a session that is in the table.
NamesSession(r) ==
  /\ Answered(r)
  /\ ~IsNull(req'[r].input.sessionId)
  /\ Val(req'[r].input.sessionId) \in DOMAIN sessions

\* C38: with enforcement on, a request that names an existing session and is
\* denied by the credential check is answered 401, 403, 429 or 500 by the
\* middleware alone: no transport handles it and the session table and its
\* bindings stay as they are.  The session stays usable: a request that names
\* it, is admitted and presents a key with the fingerprint the session is
\* bound to is handled by the session's transport, which keeps the binding
\* unless the request is the DELETE that closes the session.
C38_DenialLeavesSession ==
  [][\A r \in DOMAIN req :
       (NamesSession(r) /\ config.requireApiKey) =>
         LET s == Val(req'[r].input.sessionId) IN
           /\ ~Admitted(req'[r].res) =>
                /\ req'[r].res.status \in {Some(401), Some(403), Some(429), Some(500)}
                /\ IsNull(req'[r].res.handledBy)
                /\ UNCHANGED <<sessions, nextSession>>
           /\ (Admitted(req'[r].res) /\ OwnSession(r)) =>
                /\ req'[r].res.status = Some(200)
                /\ req'[r].res.handledBy = Some(s)
                /\ nextSession' = nextSession
                /\ sessions' = IF req'[r].input.method = "DELETE"
                                 THEN cleanupSession(sessions, s) ELSE sessions
    ]_vars

\* The store could not be reached for a request that names the session its
\* own key is bound to: the request is answered 500 and the session is still
\* in the table of the running process.
C38_Witness ==
  \E r \in DOMAIN req, s \in DOMAIN sessions :
    /\ server = "listening"
    /\ config.requireApiKey
    /\ req[r].pc = "done"
    /\ req[r].input.sessionId = Some(s)
    /\ ~IsNull(req[r].apiKey)
    /\ sessions[s].apiKeyFingerprint = keyFingerprint(req[r].apiKey)
    /\ req[r].res.status = Some(500)
    /\ ~Admitted(req[r].res)


\* The absolute difference of two whole numbers.
Gap(a, b) == IF a >= b THEN a - b ELSE b - a

\* The position of a time bucket in the evening.
BucketPosition == [early |-> 0, prime |-> 1, late |-> 2]

\* The sum of the five gaps between two vectors.
SumOfGaps(v, t) ==
  Gap(v.energy, t.energy) + Gap(v.social, t.social) +
  Gap(v.discovery, t.discovery) + Gap(v.budget, t.budget) +
  Gap(BucketPosition[v.timeBucket], BucketPosition[t.timeBucket])

\* C39: the distance the recommender computes for a candidate and a modal is
\* the sum of the absolute differences of the energy, social, discovery and
\* budget scores plus the absolute difference of the time-bucket indices
\* (early 0, prime 1, late 2).  It depends on the two vectors only, is the
\* same with the two arguments exchanged, is 0 when they are the same vector,
\* and is 2 for the two vectors of recommendationFeatures.test.ts.
C39_ModalDistanceIsSumOfGaps ==
  (~IsNull(scored) /\ ~IsNull(scored.distance)) =>
    LET v == scored.vector
        t == scored.target
        d == Val(scored.distance)
    IN /\ d = SumOfGaps(v, t)
       /\ d = modalDistance(v, t)
       /\ d = modalDistance(t, v)
       /\ v = t => d = 0
       /\ modalDistance(v, v) = 0 /\ modalDistance(t, t) = 0
       /\ (v = Vector(5, 4, 4, 3, "late") /\ t = Vector(5, 3, 5, 3, "late")) => d = 2

\* A candidate below the modal in budget and in another time bucket has been
\* scored.
C39_Witness ==
  /\ ~IsNull(scored)
  /\ scored.vector = Vector(5, 4, 4, 2, "early")
  /\ scored.target = Vector(5, 3, 5, 3, "late")
  /\ scored.distance = Some(5)

=============================================================================
